---- MODULE Spec2Model ----
(***************************************************************************)
(* Europa awareness map: the geometry core of the globe viewer.            *)
(*                                                                         *)
(*   - calculateIntersection (EuropaSphere, ray-sphere intersection)       *)
(*   - latLongToVector3 / vectorToLatLong (utils.ts, coordinate converter) *)
(*                                                                         *)
(* Numbers.  The program computes in IEEE doubles.  The model computes in  *)
(* fixed point: a number v of the program is the integer v * FP, and every *)
(* arithmetic operation rounds its result to the nearest representable     *)
(* value, as the floating-point operation does.  Angles in degrees live on *)
(* a grid of AngleStep degrees; Math.sin / Math.cos are tabulated on that  *)
(* grid and Math.asin / Math.atan2 return the nearest grid angle, the sign *)
(* of atan2 following the sign of its first argument as in IEEE 754.       *)
(* Two artefacts of the doubles are kept because the code's behaviour at   *)
(* +-180 degrees and at the poles rests on them: Math.PI is not pi, so     *)
(* Math.sin(+-Math.PI) and Math.cos(+-Math.PI/2) are not 0 but one tiny    *)
(* step away from it (Ulp); and a double can be far smaller than the       *)
(* resolution of an angle (a negative zero, or -1e-17 beside -1): such a   *)
(* number is rendered as a few steps of the representation (-Ulp), which   *)
(* is below the resolution of the angle grid beside a coordinate of 1.     *)
(***************************************************************************)
EXTENDS Integers, Sequences, FiniteSets, TLC

VARIABLES
    \* ---- Pointer-to-surface resolver (EuropaSphere.calculateIntersection)
    meshRef,        \* meshRef.current !== null
    canvasRef,      \* canvasDomElement.current !== null
    ray,            \* raycaster.ray: [origin, direction]
    sphere,         \* [center (mesh world position), radius]
    intersection,   \* value returned by calculateIntersection
    resolverPc,     \* "ready" before the call, "done" after it
    \* ---- Coordinate converter (utils.ts)
    geo,            \* arguments of latLongToVector3: [given, lat, long, radius]
    position,       \* argument of vectorToLatLong: [given, x, y, z]
    latLong,        \* value returned by vectorToLatLong: [lat, long]
    consoleErrors,  \* number of console.error calls made so far
    converterPc,    \* "ready", "placed" (a position was computed), then "done"
                    \* (vectorToLatLong returned) or "failed" (it threw)
    \* ---- Pointer handlers (EuropaSphere: handlePointerMove, handlePointerDown)
    camera,         \* camera.position: the origin of every pointer ray
    isMarkerMode,   \* prop isMarkerMode
    onMarkerPlaced, \* prop onMarkerPlaced is given
    intersectionPoint,  \* state intersectionPoint: the preview position, or null
    invalidations,  \* number of invalidate() calls made so far
    effects,        \* calls made to the outside, in order: onMarkerPlaced(lat, long)
                    \* and window.dispatchEvent(new Event('marker-selected'))
    calls,          \* the invocations of calculateIntersection that cast a ray:
                    \* [ray, sphere, result], in order
    event,          \* the pointer event handled last: [type, pixel]
    pointerEvents,  \* number of pointer events handled so far
    pointerPc,      \* "idle", or "live" once the component is mounted
    \* ---- POI store (POIProvider)
    pois,           \* state pois: the list of POIs
    isLoading,      \* state isLoading
    error,          \* state error: a message, or "null"
    fetchPc,        \* loadPOIs: "idle", "pending" (the fetch is in flight), "settled"
    lastOp,         \* the operation of the store that ran last: [op, id]
    poiOps,         \* number of addPOI / updatePOI / removePOI calls made so far
    \* ---- Marker scale (useFrame of EuropaSphere and of POIMarker)
    cameraDistance, \* distanceToCamera of the last frame of EuropaSphere
    markerScale,    \* state markerScale of EuropaSphere
    scaleGiven,     \* POIMarker is given the prop scale
    markerDistance, \* distanceToCamera of the last frame of POIMarker
    poiMarkerScale, \* state markerScale of POIMarker
    scalePc,        \* "idle", or "live" once the frames run
    \* ---- Debounced pointer moves and the intersection effect (EuropaSphere.tsx,
    \*      the revision that rate-limits its pointer moves)
    timers,         \* the timers pending in the browser: [id, remaining, args]
    timeoutId,      \* timeoutId of the debounce closure, 0 while undefined
    mousePos,       \* state mousePos: null, or the pixel of the pointer
    needsCalculation,   \* state needsCalculation
    sinceCall,      \* ms since the last call of debouncedSetMousePos, counted up
                    \* to the wait of the debounce
    lastArgs,       \* the arguments of the last call of debouncedSetMousePos
    callsPending,   \* calls of debouncedSetMousePos since the wrapped function ran
    lastRun,        \* the last run of the wrapped function: [ran, elapsed, args, calls]
    moves,          \* pointer moves handled so far
    bursts,         \* bursts of calls begun so far
    mouseUpdates,   \* runs of the wrapped function (mouse-position updates) so far
    calculations,   \* intersection calculations made by the effect so far
    debouncePc,     \* "idle", or "live" once the component is mounted
    \* ---- Add-marker workflow (App and UIOverlay)
    markerModalData,    \* App state markerModalData: null, or { lat, long }
    showModal,      \* App state showModal
    isModalOpen,    \* UIOverlay state isModalOpen
    newMarkerTitle, \* UIOverlay state newMarkerTitle: a sequence of characters
    newMarkerDescription,   \* UIOverlay state newMarkerDescription
    newMarkerCategory,  \* UIOverlay state newMarkerCategory
    europaSphereRef,    \* europaSphereRef.current is set
    addMarkerCalls, \* the calls of addMarker made so far, in order
    workflowOp,     \* the operation of the workflow that ran last
    workflowOps,    \* number of operations of the workflow run so far
    workflowPc,     \* "idle", or "live" once App is mounted
    \* ---- Update queue of the POI store (React's queue of the state pois)
    poiQueue,       \* the updates of pois React has queued, in order
    returned,       \* the last call of updatePOI or removePOI: [op, id, value]
    storeCalls,     \* number of calls of the store made so far
    queuePc,        \* "idle", or "live" once POIProvider is mounted
    \* ---- Auto-rotation (EuropaSphere.tsx: useFrame, handleOrbitStart)
    rotationY,      \* meshRef.current.rotation.y, in 1/10000 rad
    userHasInteracted,  \* state userHasInteracted
    contextLost,    \* state contextLost
    rotationOp,     \* the frame or event handled last
    rotationOps,    \* number of frames and events handled so far
    rotationPc,     \* "idle", or "live" once the component is mounted
    \* ---- Grid lines (GridLines: latLongToVector3)
    gridGeo,        \* the arguments (lat, long, radius) of the two conversions
    gridPoint,      \* what latLongToVector3 of GridLines returned
    utilsPoint,     \* what latLongToVector3 of utils.ts returned
    gridPc          \* "idle", "ready" or "placed"

resolverVars == <<meshRef, canvasRef, ray, sphere, intersection, resolverPc>>
converterVars == <<geo, position, latLong, consoleErrors, converterPc>>
pointerVars ==
    <<camera, isMarkerMode, onMarkerPlaced, intersectionPoint, invalidations, effects,
      calls, event, pointerEvents, pointerPc>>
\* the state of the components around the geometry core
poiVars == <<pois, isLoading, error, fetchPc, lastOp, poiOps>>
scaleVars ==
    <<cameraDistance, markerScale, scaleGiven, markerDistance, poiMarkerScale, scalePc>>
debounceVars ==
    <<timers, timeoutId, mousePos, needsCalculation, sinceCall, lastArgs, callsPending,
      lastRun, moves, bursts, mouseUpdates, calculations, debouncePc>>
componentVars == <<pointerVars, poiVars, scaleVars, debounceVars>>
workflowVars ==
    <<markerModalData, showModal, isModalOpen, newMarkerTitle, newMarkerDescription,
      newMarkerCategory, europaSphereRef, addMarkerCalls, workflowOp, workflowOps,
      workflowPc>>
\* the state of the application around the components
queueVars == <<poiQueue, returned, storeCalls, queuePc>>
rotationVars ==
    <<rotationY, userHasInteracted, contextLost, rotationOp, rotationOps, rotationPc>>
gridVars == <<gridGeo, gridPoint, utilsPoint, gridPc>>
appVars == <<workflowVars, queueVars, rotationVars, gridVars>>
vars == <<resolverVars, converterVars, componentVars, appVars>>

-----------------------------------------------------------------------------
(* Fixed-point arithmetic *)

\* units per 1.0
FP == 256

\* the smallest positive step of the number representation
Ulp == 1

Abs(n) == IF n < 0 THEN -n ELSE n

Min(a, b) == IF a < b THEN a ELSE b

Max(a, b) == IF a > b THEN a ELSE b

\* n / d rounded to the nearest integer, halves away from zero (d # 0)
RDiv(n, d) ==
    LET sn == IF (n < 0) = (d < 0) THEN 1 ELSE -1
        an == Abs(n)
        ad == Abs(d)
    IN  sn * ((2 * an + ad) \div (2 * ad))

\* a * b
Mul(a, b) == RDiv(a * b, FP)

\* a / b
Div(a, b) == RDiv(a * FP, b)

RECURSIVE NewtonSqrt(_, _)
NewtonSqrt(n, x) ==
    LET y == (x + n \div x) \div 2
    IN  IF y >= x THEN x ELSE NewtonSqrt(n, y)

\* the integer nearest to the square root of the integer n >= 0
SqrtNearest(n) ==
    LET s == IF n < 2 THEN n ELSE NewtonSqrt(n, n \div 2)
    IN  IF n - s * s > s THEN s + 1 ELSE s

\* Math.sqrt(v)
Sqrt(v) == SqrtNearest(v * FP)

-----------------------------------------------------------------------------
(* THREE.Vector3 *)

Vec(x, y, z) == [x |-> x, y |-> y, z |-> z]

\* a.clone().add(b)
Add(a, b) == Vec(a.x + b.x, a.y + b.y, a.z + b.z)

\* a.clone().sub(b)
Sub(a, b) == Vec(a.x - b.x, a.y - b.y, a.z - b.z)

\* a.dot(b)
Dot(a, b) == Mul(a.x, b.x) + Mul(a.y, b.y) + Mul(a.z, b.z)

\* v.multiplyScalar(s)
MultiplyScalar(v, s) == Vec(Mul(v.x, s), Mul(v.y, s), Mul(v.z, s))

\* v.length() = Math.sqrt(x*x + y*y + z*z)
Length(v) == SqrtNearest(v.x * v.x + v.y * v.y + v.z * v.z)

\* v.normalize() = v.divideScalar(v.length() || 1)
Normalize(v) ==
    LET len == Length(v)
    IN  IF len = 0 THEN v ELSE Vec(Div(v.x, len), Div(v.y, len), Div(v.z, len))

-----------------------------------------------------------------------------
(* Pointer-to-surface resolver: EuropaSphere.calculateIntersection *)

\* the value `null`
Null == [hit |-> FALSE]

\* const centerToOrigin = rayOrigin.clone().sub(spherePosition)
centerToOrigin(r, s) == Sub(r.origin, s.center)

\* const a = rayDirection.dot(rayDirection)
CoeffA(r) == Dot(r.direction, r.direction)

\* const b = 2 * centerToOrigin.dot(rayDirection)
CoeffB(r, s) == 2 * Dot(centerToOrigin(r, s), r.direction)

\* const c = centerToOrigin.dot(centerToOrigin) - radius * radius
CoeffC(r, s) ==
    Dot(centerToOrigin(r, s), centerToOrigin(r, s)) - Mul(s.radius, s.radius)

\* const discriminant = b * b - 4 * a * c
discriminant(r, s) ==
    Mul(CoeffB(r, s), CoeffB(r, s)) - Mul(4 * CoeffA(r), CoeffC(r, s))

\* const t1 = (-b - Math.sqrt(discriminant)) / (2 * a)
T1(r, s) == Div(-CoeffB(r, s) - Sqrt(discriminant(r, s)), 2 * CoeffA(r))

\* const t2 = (-b + Math.sqrt(discriminant)) / (2 * a)
T2(r, s) == Div(-CoeffB(r, s) + Sqrt(discriminant(r, s)), 2 * CoeffA(r))

\* HasRealRoots with a strict comparison
HasRealRoots_Strict(d) == d > 0

\* if (discriminant >= 0) { ... } return null
HasRealRoots(d) == d >= 0

\* SelectT as the older revision had it: t = Math.min(t1, t2), unconditionally
SelectT_AlwaysMin(t1, t2) == [ok |-> TRUE, t |-> Min(t1, t2)]

\* SelectT without the two single-root branches
SelectT_BothOrNone(t1, t2) ==
    IF t1 > 0 /\ t2 > 0 THEN [ok |-> TRUE, t |-> Min(t1, t2)]
    ELSE [ok |-> FALSE, t |-> 0]

\* SelectT taking the far root when both are in front of the origin
SelectT_Far(t1, t2) ==
    IF t1 > 0 /\ t2 > 0 THEN [ok |-> TRUE, t |-> Max(t1, t2)]
    ELSE IF t1 > 0 THEN [ok |-> TRUE, t |-> t1]
    ELSE IF t2 > 0 THEN [ok |-> TRUE, t |-> t2]
    ELSE [ok |-> FALSE, t |-> 0]

\* the if / else-if chain that chooses t; [ok |-> FALSE] is the `return null`
SelectT(t1, t2) ==
    IF t1 > 0 /\ t2 > 0 THEN [ok |-> TRUE, t |-> Min(t1, t2)]
    ELSE IF t1 > 0 THEN [ok |-> TRUE, t |-> t1]
    ELSE IF t2 > 0 THEN [ok |-> TRUE, t |-> t2]
    ELSE [ok |-> FALSE, t |-> 0]

\* const intersectionPoint = rayOrigin.clone().add(rayDirection.clone().multiplyScalar(t))
PointAt(r, t) == Add(r.origin, MultiplyScalar(r.direction, t))

\* const normal = intersectionPoint.clone().sub(spherePosition).normalize()
NormalAt(p, s) == Normalize(Sub(p, s.center))

\* normal.multiplyScalar(radius)
ScaleNormal(normal, radius) == MultiplyScalar(normal, radius)

\* FinalPosition without the centre of the sphere
FinalPosition_NoCenter(s, normal) == ScaleNormal(normal, s.radius)

\* const finalPosition = spherePosition.clone().add(normal.multiplyScalar(radius))
FinalPosition(s, normal) == Add(s.center, ScaleNormal(normal, s.radius))

\* the vector the variable `normal` holds when the result is built:
\* Vector3.multiplyScalar scales the vector it is called on and returns that
\* same object, so the call made for finalPosition has scaled `normal` too
ReturnedNormal(normal, radius) == ScaleNormal(normal, radius)

\* return { position: finalPosition, normal: normal, normalizedPosition: normal.clone() }
SurfacePoint(r, s, t) ==
    LET normal == NormalAt(PointAt(r, t), s)
    IN  [hit |-> TRUE,
         position |-> FinalPosition(s, normal),
         normal |-> ReturnedNormal(normal, s.radius),
         normalizedPosition |-> ReturnedNormal(normal, s.radius)]

\* calculateIntersection keeping the hit of the invocation before it: while one
\* is kept, it is returned again
calculateIntersection_Cached(mesh, canvas, r, s) ==
    IF ~mesh THEN Null
    ELSE IF ~canvas THEN Null
    ELSE IF calls # <<>> /\ calls[Len(calls)].result.hit
         THEN calls[Len(calls)].result
    ELSE IF HasRealRoots(discriminant(r, s))
         THEN LET sel == SelectT(T1(r, s), T2(r, s))
              IN  IF sel.ok THEN SurfacePoint(r, s, sel.t) ELSE Null
         ELSE Null

\* calculateIntersection, from the ray the raycaster produced
calculateIntersection(mesh, canvas, r, s) ==
    IF ~mesh THEN Null
    ELSE IF ~canvas THEN Null
    ELSE IF HasRealRoots(discriminant(r, s))
         THEN LET sel == SelectT(T1(r, s), T2(r, s))
              IN  IF sel.ok THEN SurfacePoint(r, s, sel.t) ELSE Null
         ELSE Null

-----------------------------------------------------------------------------
(* Inputs of the resolver *)

\* ray origins have integer coordinates in -MaxCoord .. MaxCoord
MaxCoord == 2

\* sphere radii are 1 .. MaxRadius
MaxRadius == 2

\* FP / sqrt(2): the component of a unit vector along a face diagonal
Diag == 181

Coords == {k * FP : k \in -MaxCoord..MaxCoord}

\* the ray origins of the camera positions named in the specification's scenarios
ScenarioOrigins == {Vec(0, 0, 5 * FP), Vec(0, 0, 3 * FP)}

Origins == {Vec(x, y, z) : x \in Coords, y \in Coords, z \in Coords} \cup ScenarioOrigins

\* unit directions: along the axes and along the face diagonals
AxisDirections ==
    {Vec(x * FP, y * FP, z * FP) : x, y, z \in {-1, 0, 1}} \ 
        {v \in {Vec(x * FP, y * FP, z * FP) : x, y, z \in {-1, 0, 1}} :
            Abs(v.x) + Abs(v.y) + Abs(v.z) # FP}

DiagonalDirections ==
    {v \in {Vec(x * Diag, y * Diag, z * Diag) : x, y, z \in {-1, 0, 1}} :
        Abs(v.x) + Abs(v.y) + Abs(v.z) = 2 * Diag}

Directions == AxisDirections \cup DiagonalDirections

Centers == {Vec(0, 0, 0), Vec(FP, 0, 0)}

Radii == {k * FP : k \in 1..MaxRadius}

Rays == [origin : Origins, direction : Directions]

Spheres == [center : Centers, radius : Radii]

-----------------------------------------------------------------------------
(* Math on angles in degrees *)

\* the angle grid, in degrees
AngleStep == 15

LatGrid == {k * AngleStep : k \in -6..6}

LongGrid == {k * AngleStep : k \in -12..12}

\* sin(0), sin(15), ..., sin(90), rounded to the nearest representable number
SinTable == <<0, 66, 128, 181, 222, 247, 256>>

\* the sine and cosine of a grid angle in -180..180, correctly rounded
IdealSin(a) ==
    LET m == Abs(a)
        v == IF m <= 90 THEN SinTable[m \div AngleStep + 1]
             ELSE SinTable[(180 - m) \div AngleStep + 1]
    IN  IF a < 0 THEN -v ELSE v

IdealCos(a) ==
    LET m == Abs(a)
    IN  IF m <= 90 THEN SinTable[(90 - m) \div AngleStep + 1]
        ELSE -SinTable[(m - 90) \div AngleStep + 1]

\* Math.sin((a * Math.PI) / 180): Math.sin(Math.PI) is 1.2e-16, not 0
MathSin(a) ==
    IF a = 180 THEN Ulp ELSE IF a = -180 THEN -Ulp ELSE IdealSin(a)

\* Math.cos((a * Math.PI) / 180): Math.cos(Math.PI / 2) is 6.1e-17, not 0
MathCos(a) == IF Abs(a) = 90 THEN Ulp ELSE IdealCos(a)

\* Math.asin(v) * (180 / Math.PI) for v in [-1, 1]: the grid angle whose sine is
\* nearest to v
MathAsin(v) ==
    CHOOSE a \in LatGrid :
        \A b \in LatGrid \ {a} :
            \/ Abs(IdealSin(a) - v) < Abs(IdealSin(b) - v)
            \/ Abs(IdealSin(a) - v) = Abs(IdealSin(b) - v) /\ Abs(a) < Abs(b)

\* how well the direction of the grid angle a fits the direction (x, z)
Fit(a, z, x) == x * IdealCos(a) + z * IdealSin(a)

\* Math.atan2(z, x) * (180 / Math.PI): the grid angle nearest to the direction
\* (x, z), in [0, 180] for z >= 0 and in [-180, 0] for z < 0 (IEEE 754: the
\* result has the sign of z, and atan2(-0, x) = -pi for x < 0)
MathAtan2(z, x) ==
    LET side == IF z < 0 THEN {a \in LongGrid : a <= 0} ELSE {a \in LongGrid : a >= 0}
    IN  CHOOSE a \in side :
            \A b \in side \ {a} :
                \/ Fit(a, z, x) > Fit(b, z, x)
                \/ Fit(a, z, x) = Fit(b, z, x) /\ Abs(a) < Abs(b)

-----------------------------------------------------------------------------
(* Coordinate converter: utils.ts *)

\* latLongToVector3 with z as the polar axis
latLongToVector3_ZUp(lat, long, radius) ==
    Vec(Mul(Mul(radius, MathCos(lat)), MathCos(long)),
        Mul(Mul(radius, MathCos(lat)), MathSin(long)),
        Mul(radius, MathSin(lat)))

\* latLongToVector3 with the sine and cosine of the longitude exchanged
latLongToVector3_Swapped(lat, long, radius) ==
    Vec(Mul(Mul(radius, MathCos(lat)), MathSin(long)),
        Mul(radius, MathSin(lat)),
        Mul(Mul(radius, MathCos(lat)), MathCos(long)))

\* latLongToVector3(lat, long, radius)
latLongToVector3(lat, long, radius) ==
    Vec(Mul(Mul(radius, MathCos(lat)), MathCos(long)),
        Mul(radius, MathSin(lat)),
        Mul(Mul(radius, MathCos(lat)), MathSin(long)))

\* a position argument: a Vector3, or a missing one (null / undefined)
Position(x, y, z) == [given |-> TRUE, x |-> x, y |-> y, z |-> z]

NoPosition == [given |-> FALSE, x |-> 0, y |-> 0, z |-> 0]

\* if (!position || position.length() === 0)
Degenerate(pos) == ~pos.given \/ Length(pos) = 0

\* Math.max(-1, Math.min(1, normalizedY))
Clamp(v) == Max(-FP, Min(FP, v))

\* if (long < -180) long += 360; if (long > 180) long -= 360;
WrapLongitude(long) ==
    LET l1 == IF long < -180 THEN long + 360 ELSE long
    IN  IF l1 > 180 THEN l1 - 360 ELSE l1

\* 1e-10 degrees: below the step of the angle grid
PoleEpsilon == 1

\* if (Math.abs(Math.abs(lat) - 90) < 1e-10)
AtPole(lat) == Abs(Abs(lat) - 90) < PoleEpsilon

\* PoleRule left out
PoleRule_Off(lat, long) == long

\* the pole rule: long = 0 at a pole
PoleRule(lat, long) == IF AtPole(lat) THEN 0 ELSE long

\* DegenerateResult without the console.error call
DegenerateResult_Silent == [lat |-> 0, long |-> 0, logged |-> FALSE]

\* console.error(...); return { lat: 0, long: 0 };
DegenerateResult == [lat |-> 0, long |-> 0, logged |-> TRUE]

\* vectorToLatLong dividing by the radius argument instead of the length of
\* the point
vectorToLatLong_ByRadius(pos, radius) ==
    IF Degenerate(pos)
    THEN DegenerateResult
    ELSE LET normalizedX == Div(pos.x, radius)
             normalizedY == Div(pos.y, radius)
             normalizedZ == Div(pos.z, radius)
             lat == MathAsin(Clamp(normalizedY))
             long == WrapLongitude(MathAtan2(normalizedZ, normalizedX))
         IN  [lat |-> lat, long |-> PoleRule(lat, long), logged |-> FALSE]

\* vectorToLatLong(position, radius): the value returned and whether
\* console.error was called; radius is not used
vectorToLatLong(pos, radius) ==
    IF Degenerate(pos)
    THEN DegenerateResult
    ELSE LET norm == Length(pos)
             normalizedX == Div(pos.x, norm)
             normalizedY == Div(pos.y, norm)
             normalizedZ == Div(pos.z, norm)
             lat == MathAsin(Clamp(normalizedY))
             long == WrapLongitude(MathAtan2(normalizedZ, normalizedX))
         IN  [lat |-> lat, long |-> PoleRule(lat, long), logged |-> FALSE]

-----------------------------------------------------------------------------
(* Inputs of the converter *)

\* positions given directly have coordinates 0, +-1 and a few steps around 0
MaxSmall == 1

PositionCoords == {0, FP, -FP} \cup {k * Ulp : k \in -MaxSmall..MaxSmall}

Positions ==
    {Position(x, y, z) : x \in PositionCoords, y \in PositionCoords, z \in PositionCoords}
        \cup {NoPosition}

\* the radii 0.5, 1 and 100
ConverterRadii == {FP \div 2, FP, 100 * FP}

NoGeo == [given |-> FALSE, lat |-> 0, long |-> 0, radius |-> FP]

GeoInputs == [given : {TRUE}, lat : LatGrid, long : LongGrid, radius : ConverterRadii]

-----------------------------------------------------------------------------
(* Pointer handlers of EuropaSphere: handlePointerMove, handlePointerDown *)

\* const radius = 1
GlobeRadius == FP

\* state intersectionPoint: null, or the position of the preview marker
NoPreview == [shown |-> FALSE]

PreviewAt(v) == [shown |-> TRUE, position |-> v]

\* raycaster.setFromCamera(new THREE.Vector2(ndcX, ndcY), camera): the ray from
\* the camera position through the pixel under the pointer; a pixel is named by
\* the direction of the ray through it
PointerRay(cam, pixel) == [origin |-> cam, direction |-> pixel]

\* PreviewAfterMove keeping the preview it finds when the ray misses
PreviewAfterMove_Stale(result) ==
    IF result.hit THEN PreviewAt(result.position) ELSE intersectionPoint

\* if (intersection) setIntersectionPoint(intersection.position)
\* else setIntersectionPoint(null)
PreviewAfterMove(result) ==
    IF result.hit THEN PreviewAt(result.position) ELSE NoPreview

\* handlePointerMove: what it leaves behind, [preview, invalidated, cast];
\* result is the value calculateIntersection returned
handlePointerMove(mesh, canvas, preview, result) ==
    IF ~mesh
    THEN [preview |-> preview, invalidated |-> FALSE, cast |-> FALSE]
    ELSE [preview |-> PreviewAfterMove(result),
          invalidated |-> result.hit,
          cast |-> canvas]

\* onMarkerPlaced(lat, long)
MarkerPlacedCall(lat, long) == [name |-> "onMarkerPlaced", lat |-> lat, long |-> long]

\* window.dispatchEvent(new Event('marker-selected'))
MarkerSelectedEvent == [name |-> "dispatchEvent", type |-> "marker-selected"]

\* MarkerReport with the event dispatched before the callback is called
MarkerReport_EventFirst(callbackGiven, lat, long) ==
    IF callbackGiven
    THEN <<MarkerSelectedEvent, MarkerPlacedCall(lat, long)>>
    ELSE <<>>

\* if (onMarkerPlaced) { onMarkerPlaced(lat, long); window.dispatchEvent(...) }
MarkerReport(callbackGiven, lat, long) ==
    IF callbackGiven
    THEN <<MarkerPlacedCall(lat, long), MarkerSelectedEvent>>
    ELSE <<>>

\* handlePointerDown: what it does, [made (calls to the outside), logged, cast];
\* result is the value calculateIntersection returned
handlePointerDown(mode, mesh, canvas, callbackGiven, result) ==
    IF ~mode \/ ~mesh
    THEN [made |-> <<>>, logged |-> FALSE, cast |-> FALSE]
    ELSE IF ~result.hit
         THEN [made |-> <<>>, logged |-> FALSE, cast |-> canvas]
         ELSE LET n == result.normalizedPosition
                  out == vectorToLatLong(Position(n.x, n.y, n.z), FP)
              IN  [made |-> MarkerReport(callbackGiven, out.lat, out.long),
                   logged |-> out.logged,
                   cast |-> canvas]

-----------------------------------------------------------------------------
(* Inputs of the pointer handlers *)

\* pointer events handled in one behaviour
MaxEvents == 3

\* the camera outside the globe, and inside it
Cameras == {Vec(0, 0, 3 * FP), Vec(0, 0, 0)}

\* the pixels: towards the globe, away from it and past it
Pixels == {Vec(0, 0, -FP), Vec(0, 0, FP), Vec(FP, 0, 0)}

\* the globe: the mesh at either world position, with the radius of the component
Globes == [center : Centers, radius : {GlobeRadius}]

-----------------------------------------------------------------------------
(* POI store: POIProvider *)

\* findIndex taking the last POI with the id
FindIndex_Last(list, id) ==
    IF \E i \in 1..Len(list) : list[i].id = id
    THEN CHOOSE i \in 1..Len(list) :
            /\ list[i].id = id
            /\ \A j \in (i + 1)..Len(list) : list[j].id # id
    ELSE 0

\* the index of the first POI of the list with the id, 0 if there is none:
\* prevPOIs.findIndex(poi => poi.id === id), -1 rendered as 0
FindIndex(list, id) ==
    IF \E i \in 1..Len(list) : list[i].id = id
    THEN CHOOSE i \in 1..Len(list) :
            /\ list[i].id = id
            /\ \A j \in 1..(i - 1) : list[j].id # id
    ELSE 0

\* { ...poiData, id }: the fields of poiData, and the id
NewPOI(poiData, id) ==
    [f \in DOMAIN poiData \cup {"id"} |-> IF f = "id" THEN id ELSE poiData[f]]

\* setPOIs(prevPOIs => [...prevPOIs, newPOI])
AppendPOI(list, poi) == Append(list, poi)

\* MergePOI keeping the id of the POI whatever the updates say
MergePOI_KeepsId(poi, updates) ==
    [f \in DOMAIN poi \cup DOMAIN updates |->
        IF f \in DOMAIN updates /\ f # "id" THEN updates[f] ELSE poi[f]]

\* { ...updatedPOIs[index], ...updates }: the fields of the POI, those that
\* updates has taken from updates
MergePOI(poi, updates) ==
    [f \in DOMAIN poi \cup DOMAIN updates |->
        IF f \in DOMAIN updates THEN updates[f] ELSE poi[f]]

\* the list updatePOI leaves: the POI at the index merged with updates, or the
\* list as it was when no POI has the id
UpdatedPOIs(list, id, updates) ==
    LET index == FindIndex(list, id)
    IN  IF index = 0 THEN list
        ELSE [list EXCEPT ![index] = MergePOI(list[index], updates)]

\* the list removePOI leaves: updatedPOIs.splice(index, 1), or the list as it
\* was when no POI has the id
RemainingPOIs(list, id) ==
    LET index == FindIndex(list, id)
    IN  IF index = 0 THEN list
        ELSE SubSeq(list, 1, index - 1) \o SubSeq(list, index + 1, Len(list))

\* the startup load keeping the POIs added before it ended
LoadedPOIs_Merged(list, filePOIs) == filePOIs \o list

\* setPOIs(data.pois): the list the startup load leaves
LoadedPOIs(list, filePOIs) == filePOIs

-----------------------------------------------------------------------------
(* The update queue of the state pois: setPOIs with an updater function *)

\* setPOIs(prevPOIs => [...prevPOIs, newPOI])
AddUpdater(poi) == [op |-> "add", poi |-> poi]

\* the updater updatePOI passes to setPOIs
UpdateUpdater(id, updates) == [op |-> "update", id |-> id, updates |-> updates]

\* the updater removePOI passes to setPOIs
RemoveUpdater(id) == [op |-> "remove", id |-> id]

\* the list an updater returns for prevPOIs
UpdaterResult(prevPOIs, updater) ==
    CASE updater.op = "add" -> AppendPOI(prevPOIs, updater.poi)
      [] updater.op = "update" -> UpdatedPOIs(prevPOIs, updater.id, updater.updates)
      [] updater.op = "remove" -> RemainingPOIs(prevPOIs, updater.id)

\* the state a render leaves: the queued updaters run in order, each on the
\* list the one before it returned
RECURSIVE RenderedPOIs(_, _)
RenderedPOIs(list, queue) ==
    IF queue = <<>> THEN list
    ELSE RenderedPOIs(UpdaterResult(list, Head(queue)), Tail(queue))

\* React runs the updater inside the setPOIs call only while no update of the
\* component is queued; otherwise it runs it in the next render
RunsEagerly(queue) == queue = <<>>

\* the index the updater finds: on the current list when it runs inside the
\* call, none yet when it is left to the next render
FoundInCall(list, queue, id) == IF RunsEagerly(queue) THEN FindIndex(list, id) ELSE 0

\* the queue after setPOIs(updater): an updater that ran inside the call and
\* returned prevPOIs itself is dropped
Enqueued(list, queue, updater, id) ==
    IF RunsEagerly(queue) /\ FindIndex(list, id) = 0 THEN queue
    ELSE Append(queue, updater)

\* updatePOI(id, updates): [value (what it returns, the flag `updated` at the
\* return statement), queue]
updatePOI(list, queue, id, updates) ==
    [value |-> FoundInCall(list, queue, id) # 0,
     queue |-> Enqueued(list, queue, UpdateUpdater(id, updates), id)]

\* removePOI(id): [value (the flag `removed` at the return statement), queue]
removePOI(list, queue, id) ==
    [value |-> FoundInCall(list, queue, id) # 0,
     queue |-> Enqueued(list, queue, RemoveUpdater(id), id)]

-----------------------------------------------------------------------------
(* addMarker of EuropaSphere *)

\* MarkerCategory.LANDMARK
LANDMARK == "landmark"

\* the argument category left out
Omitted == "(omitted)"

\* category: string = 'user'
CategoryOrDefault(category) == IF category = Omitted THEN "user" ELSE category

\* poiType with 'user' among the categories of regular POIs
poiType_UserIsPOI(category) ==
    IF category = "orientation" THEN "orientation"
    ELSE IF category = "custom" THEN "custom"
    ELSE "poi"

\* let poiType = 'poi'; if (category === 'orientation') ... else if
\* (category === 'custom' || category === 'user') ...
poiType(category) ==
    IF category = "orientation" THEN "orientation"
    ELSE IF category = "custom" \/ category = "user" THEN "custom"
    ELSE "poi"

\* addMarker: the argument it passes to addPOI
addMarker(lat, long, title, description, category) ==
    [title |-> title,
     description |-> description,
     lat |-> lat,
     lng |-> long,
     type |-> poiType(CategoryOrDefault(category)),
     category |-> CategoryOrDefault(category)]

-----------------------------------------------------------------------------
(* Inputs of the POI store *)

\* calls of addPOI, updatePOI and removePOI in one behaviour
MaxOps == 3

\* ids of the POIs of /resources/europa-pois.json
FileIds == {"north-pole", "conamara-chaos"}

\* ids addPOI makes: `poi-${Date.now()}-${Math.random().toString(36).substr(2, 9)}`
GeneratedIds == {"poi-1700000000000-k3j9x2m1q", "poi-1700000000001-a8s7d6f5g"}

\* the contents of the file: no POI, one, or two
FileContents ==
    {<<>>,
     <<[id |-> "north-pole", title |-> "North Pole", lat |-> 90, lng |-> 0, type |-> "pole"]>>,
     <<[id |-> "north-pole", title |-> "North Pole", lat |-> 90, lng |-> 0, type |-> "pole"],
       [id |-> "conamara-chaos", title |-> "Conamara Chaos", lat |-> 15, lng |-> -90,
        type |-> "poi"]>>}

\* the data of the markers a user confirms
NewPOIData ==
    {[title |-> "Landing site", lat |-> 30, lng |-> 45, type |-> "custom"],
     [title |-> "Relay", lat |-> -15, lng |-> 120, type |-> "poi"]}

\* the arguments of the calls of addMarker: every kind of category, and none
MarkerCategories == {"orientation", "custom", "user", LANDMARK, "terrain", Omitted}

MarkerArguments ==
    [lat : {30}, long : {-120}, title : {"Base"}, description : {"Ice cliffs"},
     category : MarkerCategories]

\* calls of the store in one behaviour of the update queue
MaxCalls == 3

\* the updates a caller passes, a Partial<POI>: a new title, or a new id
Updates == {[title |-> "Renamed"], [id |-> "north-pole"]}

\* the messages loadPOIs stores when it fails
LoadErrors ==
    {"Failed to load POIs: Not Found", "Invalid POI data format", "Failed to fetch",
     "Unknown error loading POIs"}

-----------------------------------------------------------------------------
(* Marker scale: useFrame of EuropaSphere and of POIMarker *)

\* marker sizes are numbers of a few thousandths: a size v is the integer
\* v * SizeUnit
SizeUnit == 1000000

\* const MIN_MARKER_SIZE = 0.005
MIN_MARKER_SIZE == (5 * SizeUnit) \div 1000

\* const MAX_MARKER_SIZE = 0.04
MAX_MARKER_SIZE == (4 * SizeUnit) \div 100

\* const MIN_CAMERA_DISTANCE = 1.5
MIN_CAMERA_DISTANCE == (3 * FP) \div 2

\* const MAX_CAMERA_DISTANCE = 4
MAX_CAMERA_DISTANCE == 4 * FP

\* POIMarker: const MIN_MARKER_SIZE = 0.01
POIMarker_MIN_MARKER_SIZE == SizeUnit \div 100

\* POIMarker: const MAX_MARKER_SIZE = 0.04
POIMarker_MAX_MARKER_SIZE == (4 * SizeUnit) \div 100

\* clampedDistance without the upper limit
clampedDistance_NoUpper(distanceToCamera) ==
    Max(MIN_CAMERA_DISTANCE, distanceToCamera)

\* Math.max(MIN_CAMERA_DISTANCE, Math.min(MAX_CAMERA_DISTANCE, distanceToCamera))
clampedDistance(distanceToCamera) ==
    Max(MIN_CAMERA_DISTANCE, Min(MAX_CAMERA_DISTANCE, distanceToCamera))

\* (clampedDistance - MIN_CAMERA_DISTANCE) / (MAX_CAMERA_DISTANCE - MIN_CAMERA_DISTANCE)
normalizedDistance(distanceToCamera) ==
    Div(clampedDistance(distanceToCamera) - MIN_CAMERA_DISTANCE,
        MAX_CAMERA_DISTANCE - MIN_CAMERA_DISTANCE)

\* EuropaSphere:
\* MIN_MARKER_SIZE + normalizedDistance * (MAX_MARKER_SIZE - MIN_MARKER_SIZE)
scale(distanceToCamera) ==
    MIN_MARKER_SIZE
        + Mul(normalizedDistance(distanceToCamera), MAX_MARKER_SIZE - MIN_MARKER_SIZE)

\* POIMarker, without the prop scale: the same with the constants of POIMarker
size(distanceToCamera) ==
    POIMarker_MIN_MARKER_SIZE
        + Mul(normalizedDistance(distanceToCamera),
              POIMarker_MAX_MARKER_SIZE - POIMarker_MIN_MARKER_SIZE)

-----------------------------------------------------------------------------
(* Inputs of the marker scale *)

\* the camera is at most this far from the globe and from a marker
MaxDistance == 5

\* distances are multiples of a quarter
DistanceStep == FP \div 4

Distances == {k * DistanceStep : k \in 0..(4 * MaxDistance)}

\* no frame has run yet
NotMeasured == -1

-----------------------------------------------------------------------------
(* Debounced pointer moves and the intersection effect: EuropaSphere.tsx *)

\* debounce(..., 5): the wait in ms
DebounceWait == 5

\* clearTimeout left out
ClearTimeout_Skipped(pending, id) == pending

\* clearTimeout(timeoutId): the timer with the id is no longer pending
ClearTimeout(pending, id) == {t \in pending : t.id # id}

\* setTimeout(() => fn.apply(this, args), ms): one more timer is pending
SetTimeout(pending, id, args, ms) ==
    pending \cup {[id |-> id, remaining |-> ms, args |-> args]}

\* one ms passes for the pending timers
Elapse(pending) ==
    {[id |-> t.id, remaining |-> Max(0, t.remaining - 1), args |-> t.args] : t \in pending}

\* state mousePos: null, or { x, y }, named by the pixel
NoMousePos == [set |-> FALSE]

MousePosAt(pixel) == [set |-> TRUE, pixel |-> pixel]

\* let t = Math.min(t1, t2)
EffectT(t1, t2) == Min(t1, t2)

\* the intersection effect: the value it passes to setIntersectionPoint
EffectIntersectionPoint(r, s) ==
    IF discriminant(r, s) >= 0
    THEN LET t == EffectT(T1(r, s), T2(r, s))
             normal == NormalAt(PointAt(r, t), s)
         IN  PreviewAt(FinalPosition(s, normal))
    ELSE NoPreview

-----------------------------------------------------------------------------
(* Inputs of the debounced pointer moves *)

\* pointer moves handled in one behaviour
MaxMoves == 3

-----------------------------------------------------------------------------
(* Add-marker workflow: App and UIOverlay *)

\* useState(null) of markerModalData
NoMarkerData == [set |-> FALSE]

\* handleMarkerPlaced: setMarkerModalData({ lat, long })
handleMarkerPlaced(lat, long) == [set |-> TRUE, lat |-> lat, long |-> long]

\* handleMarkerSelected of App: if (isMarkerMode) setShowModal(true)
handleMarkerSelected(mode, shown) == IF mode THEN TRUE ELSE shown

\* handleMarkerClick of UIOverlay, a listener only while isMarkerMode is true:
\* setIsModalOpen(true)
handleMarkerClick(mode, open) == IF mode THEN TRUE ELSE open

\* the state of App: isMarkerMode, markerModalData, showModal
AppState(mode, data, shown) ==
    [isMarkerMode |-> mode, markerModalData |-> data, showModal |-> shown]

\* toggleMarkerMode keeping the pending marker data when it turns the mode off
toggleMarkerMode_KeepsData(app) ==
    AppState(~app.isMarkerMode, app.markerModalData, app.showModal)

\* toggleMarkerMode: setIsMarkerMode(prev => { if (prev) { setMarkerModalData(null);
\* setShowModal(false); } return !prev; })
toggleMarkerMode(app) ==
    IF app.isMarkerMode
    THEN AppState(FALSE, NoMarkerData, FALSE)
    ELSE AppState(TRUE, app.markerModalData, app.showModal)

\* europaSphereRef.current.addMarker(lat, long, title, description)
AddMarkerCall(lat, long, title, description) ==
    [name |-> "addMarker", lat |-> lat, long |-> long, title |-> title,
     description |-> description, category |-> Omitted]

\* createMarker leaving marker mode on
createMarker_StaysInMode(app, refSet, title, description) ==
    IF app.markerModalData.set /\ refSet
    THEN [app |-> AppState(app.isMarkerMode, NoMarkerData, FALSE),
          made |-> <<AddMarkerCall(app.markerModalData.lat, app.markerModalData.long,
                                   title, description)>>]
    ELSE [app |-> app, made |-> <<>>]

\* createMarker(title, description): [app (the state of App it leaves), made (its
\* calls of addMarker)]
createMarker(app, refSet, title, description) ==
    IF app.markerModalData.set /\ refSet
    THEN [app |-> AppState(FALSE, NoMarkerData, FALSE),
          made |-> <<AddMarkerCall(app.markerModalData.lat, app.markerModalData.long,
                                   title, description)>>]
    ELSE [app |-> app, made |-> <<>>]

\* the state of App and of the modal after the calls handlePointerDown made:
\* onMarkerPlaced is handleMarkerPlaced, and 'marker-selected' is heard by
\* handleMarkerSelected of App and by handleMarkerClick of UIOverlay
RECURSIVE Delivered(_, _)
Delivered(made, st) ==
    IF made = <<>> THEN st
    ELSE LET e == Head(made)
             next == IF e.name = "onMarkerPlaced"
                     THEN [st EXCEPT !.markerModalData = handleMarkerPlaced(e.lat, e.long)]
                     ELSE [st EXCEPT
                              !.showModal = handleMarkerSelected(st.isMarkerMode, @),
                              !.isModalOpen = handleMarkerClick(st.isMarkerMode, @)]
         IN  Delivered(Tail(made), next)

\* String.prototype.trim on a sequence of characters
RECURSIVE TrimStart(_)
TrimStart(chars) ==
    IF chars # <<>> /\ Head(chars) = " " THEN TrimStart(Tail(chars)) ELSE chars

RECURSIVE TrimEnd(_)
TrimEnd(chars) ==
    IF chars # <<>> /\ chars[Len(chars)] = " "
    THEN TrimEnd(SubSeq(chars, 1, Len(chars) - 1))
    ELSE chars

Trim(chars) == TrimEnd(TrimStart(chars))

\* if (newMarkerTitle.trim())
Truthy(chars) == chars # <<>>

-----------------------------------------------------------------------------
(* Inputs of the add-marker workflow *)

\* operations of the workflow in one behaviour
MaxSteps == 8

\* the titles a user types: none, blanks, and two titles
Titles == {<<>>, <<" ", " ">>, <<"I", "o">>, <<" ", "B", "a", "s", "e", " ">>}

Descriptions == {"", "Ice cliffs"}

\* the categories of the dropdown: all but USER and ORIENTATION
VisibleCategories == {"terrain", "impact", LANDMARK, "navigation", "custom"}

\* the categories a user selects
SelectedCategories == {LANDMARK, "custom"}

-----------------------------------------------------------------------------
(* Auto-rotation of the globe: EuropaSphere.tsx *)

\* the condition of the rotation without the test of userHasInteracted
autoRotates_IgnoresInteraction(mesh, mode, lost, interacted) ==
    mesh /\ ~mode /\ ~lost

\* if (meshRef.current && !isMarkerMode && !contextLost && !userHasInteracted)
autoRotates(mesh, mode, lost, interacted) ==
    mesh /\ ~mode /\ ~lost /\ ~interacted

\* meshRef.current.rotation.y += 0.1 * delta: the rotation in 1/10000 rad
\* after a frame of delta ms (delta is in seconds in the code)
RotatedBy(rotation, delta) == rotation + delta

\* handlePointerDown on the canvas: if (e.button === 1 || e.button === 2)
PointerDownInteracts(button) == button = 1 \/ button = 2

\* handleTouch: if (e.touches.length > 1)
TouchInteracts(touches) == touches > 1

-----------------------------------------------------------------------------
(* Inputs of the auto-rotation *)

\* frames and events in one behaviour
MaxRotationOps == 5

\* the time between two frames, in ms
Deltas == {16, 33}

\* e.button: left, middle, right
Buttons == {0, 1, 2}

\* e.touches.length
TouchCounts == {1, 2}

-----------------------------------------------------------------------------
(* Grid lines: the private latLongToVector3 of GridLines/index.tsx *)

\* Math.sin(a * (Math.PI / 180)) for a grid angle a in 0..360:
\* Math.sin(Math.PI) is 1.2e-16 and Math.sin(2 * Math.PI) is -2.4e-16, not 0
MathSinTurn(a) ==
    IF a = 360 THEN -Ulp
    ELSE IF a <= 180 THEN MathSin(a)
    ELSE -IdealSin(a - 180)

\* Math.cos(a * (Math.PI / 180)) for a grid angle a in 0..360:
\* Math.cos(Math.PI / 2) is 6.1e-17 and Math.cos(3 * Math.PI / 2) is -1.8e-16
MathCosTurn(a) ==
    IF a = 270 THEN -Ulp
    ELSE IF a <= 180 THEN MathCos(a)
    ELSE -IdealCos(a - 180)

\* latLongToVector3(lat, long, radius) of GridLines: phi = 90 - lat,
\* theta = long + 180
GridLines_latLongToVector3(lat, long, radius) ==
    LET phi == 90 - lat
        theta == long + 180
    IN  Vec(Mul(Mul(radius, MathSinTurn(phi)), MathCosTurn(theta)),
            Mul(radius, MathCosTurn(phi)),
            Mul(Mul(radius, MathSinTurn(phi)), MathSinTurn(theta)))

-----------------------------------------------------------------------------
(* The state machine *)

ResolverIdle ==
    /\ meshRef = FALSE
    /\ canvasRef = FALSE
    /\ ray = [origin |-> Vec(0, 0, 0), direction |-> Vec(FP, 0, 0)]
    /\ sphere = [center |-> Vec(0, 0, 0), radius |-> FP]
    /\ intersection = Null
    /\ resolverPc = "idle"

\* a pointer event is about to be resolved: the refs may not be attached yet
ResolverInit ==
    /\ meshRef \in BOOLEAN
    /\ canvasRef \in BOOLEAN
    /\ ray \in Rays
    /\ sphere \in Spheres
    /\ intersection = Null
    /\ resolverPc = "ready"

ConverterIdle ==
    /\ geo = NoGeo
    /\ position = NoPosition
    /\ latLong = [lat |-> 0, long |-> 0]
    /\ consoleErrors = 0
    /\ converterPc = "idle"

\* a conversion is about to be made: of a position, or of the position of a
\* latitude and longitude
ConverterInit ==
    /\ \/ geo = NoGeo /\ position \in Positions
       \/ geo \in GeoInputs /\ position = NoPosition
    /\ latLong = [lat |-> 0, long |-> 0]
    /\ consoleErrors = 0
    /\ converterPc = "ready"

PointerIdle ==
    /\ camera = Vec(0, 0, 3 * FP)
    /\ isMarkerMode = FALSE
    /\ onMarkerPlaced = FALSE
    /\ intersectionPoint = NoPreview
    /\ invalidations = 0
    /\ effects = <<>>
    /\ calls = <<>>
    /\ event = [type |-> "none"]
    /\ pointerEvents = 0
    /\ pointerPc = "idle"

\* the component is mounted: useState(null) for intersectionPoint, the props as
\* the parent gives them, the refs attached or not yet
PointerInit ==
    /\ meshRef \in BOOLEAN
    /\ canvasRef \in BOOLEAN
    /\ sphere \in Globes
    /\ ray = [origin |-> Vec(0, 0, 0), direction |-> Vec(FP, 0, 0)]
    /\ intersection = Null
    /\ resolverPc = "idle"
    /\ camera \in Cameras
    /\ isMarkerMode \in BOOLEAN
    /\ onMarkerPlaced \in BOOLEAN
    /\ intersectionPoint = NoPreview
    /\ invalidations = 0
    /\ effects = <<>>
    /\ calls = <<>>
    /\ event = [type |-> "none"]
    /\ pointerEvents = 0
    /\ pointerPc = "live"

POIsIdle ==
    /\ pois = <<>>
    /\ isLoading = TRUE
    /\ error = "null"
    /\ fetchPc = "idle"
    /\ lastOp = [op |-> "none"]
    /\ poiOps = 0

\* POIProvider is mounted: useState([]), useState(true), useState(null), and
\* the effect has called loadPOIs, whose fetch is in flight
POIsInit ==
    /\ pois = <<>>
    /\ isLoading = TRUE
    /\ error = "null"
    /\ fetchPc = "pending"
    /\ lastOp = [op |-> "none"]
    /\ poiOps = 0

ScaleIdle ==
    /\ cameraDistance = NotMeasured
    /\ markerScale = MAX_MARKER_SIZE
    /\ scaleGiven = TRUE
    /\ markerDistance = NotMeasured
    /\ poiMarkerScale = POIMarker_MAX_MARKER_SIZE
    /\ scalePc = "idle"

\* EuropaSphere and a POIMarker are mounted: useState(MAX_MARKER_SIZE) in both,
\* the mesh attached or not yet, the marker with the prop scale or without it
ScaleInit ==
    /\ meshRef \in BOOLEAN
    /\ canvasRef = FALSE
    /\ ray = [origin |-> Vec(0, 0, 0), direction |-> Vec(FP, 0, 0)]
    /\ sphere = [center |-> Vec(0, 0, 0), radius |-> FP]
    /\ intersection = Null
    /\ resolverPc = "idle"
    /\ cameraDistance = NotMeasured
    /\ markerScale = MAX_MARKER_SIZE
    /\ scaleGiven \in BOOLEAN
    /\ markerDistance = NotMeasured
    /\ poiMarkerScale = POIMarker_MAX_MARKER_SIZE
    /\ scalePc = "live"

DebounceIdle ==
    /\ timers = {}
    /\ timeoutId = 0
    /\ mousePos = NoMousePos
    /\ needsCalculation = FALSE
    /\ sinceCall = DebounceWait
    /\ lastArgs = Vec(0, 0, 0)
    /\ callsPending = 0
    /\ lastRun = [ran |-> FALSE]
    /\ moves = 0
    /\ bursts = 0
    /\ mouseUpdates = 0
    /\ calculations = 0
    /\ debouncePc = "idle"

\* the component is mounted: let timeoutId, useState(null) for mousePos and
\* intersectionPoint, useState(false) for needsCalculation; the mesh attached
\* or not yet
DebounceInit ==
    /\ meshRef \in BOOLEAN
    /\ canvasRef = TRUE
    /\ sphere \in Globes
    /\ ray = [origin |-> Vec(0, 0, 0), direction |-> Vec(FP, 0, 0)]
    /\ intersection = Null
    /\ resolverPc = "idle"
    /\ camera \in Cameras
    /\ isMarkerMode = FALSE
    /\ onMarkerPlaced = FALSE
    /\ intersectionPoint = NoPreview
    /\ invalidations = 0
    /\ effects = <<>>
    /\ calls = <<>>
    /\ event = [type |-> "none"]
    /\ pointerEvents = 0
    /\ pointerPc = "idle"
    /\ timers = {}
    /\ timeoutId = 0
    /\ mousePos = NoMousePos
    /\ needsCalculation = FALSE
    /\ sinceCall = DebounceWait
    /\ lastArgs = Vec(0, 0, 0)
    /\ callsPending = 0
    /\ lastRun = [ran |-> FALSE]
    /\ moves = 0
    /\ bursts = 0
    /\ mouseUpdates = 0
    /\ calculations = 0
    /\ debouncePc = "live"

WorkflowIdle ==
    /\ markerModalData = NoMarkerData
    /\ showModal = FALSE
    /\ isModalOpen = FALSE
    /\ newMarkerTitle = <<>>
    /\ newMarkerDescription = ""
    /\ newMarkerCategory = LANDMARK
    /\ europaSphereRef = FALSE
    /\ addMarkerCalls = <<>>
    /\ workflowOp = "none"
    /\ workflowOps = 0
    /\ workflowPc = "idle"

\* App is mounted: useState(false) of isMarkerMode and showModal, useState(null)
\* of markerModalData, the form of UIOverlay empty and its modal closed; the
\* scene is mounted, with the mesh and the ref of EuropaSphere set, or it is
\* still suspended; the POIs are loaded
WorkflowInit ==
    /\ europaSphereRef \in BOOLEAN
    /\ meshRef = europaSphereRef
    /\ canvasRef = europaSphereRef
    /\ sphere \in Globes
    /\ ray = [origin |-> Vec(0, 0, 0), direction |-> Vec(FP, 0, 0)]
    /\ intersection = Null
    /\ resolverPc = "idle"
    /\ camera = Vec(0, 0, 3 * FP)
    /\ isMarkerMode = FALSE
    /\ onMarkerPlaced = TRUE
    /\ intersectionPoint = NoPreview
    /\ invalidations = 0
    /\ effects = <<>>
    /\ calls = <<>>
    /\ event = [type |-> "none"]
    /\ pointerEvents = 0
    /\ pointerPc = "idle"
    /\ pois \in FileContents
    /\ isLoading = FALSE
    /\ error = "null"
    /\ fetchPc = "idle"
    /\ lastOp = [op |-> "none"]
    /\ poiOps = 0
    /\ markerModalData = NoMarkerData
    /\ showModal = FALSE
    /\ isModalOpen = FALSE
    /\ newMarkerTitle = <<>>
    /\ newMarkerDescription = ""
    /\ newMarkerCategory = LANDMARK
    /\ addMarkerCalls = <<>>
    /\ workflowOp = "none"
    /\ workflowOps = 0
    /\ workflowPc = "live"

QueueIdle ==
    /\ poiQueue = <<>>
    /\ returned = [op |-> "none"]
    /\ storeCalls = 0
    /\ queuePc = "idle"

RotationIdle ==
    /\ rotationY = 0
    /\ userHasInteracted = FALSE
    /\ contextLost = FALSE
    /\ rotationOp = [op |-> "none"]
    /\ rotationOps = 0
    /\ rotationPc = "idle"

GridIdle ==
    /\ gridGeo = NoGeo
    /\ gridPoint = Vec(0, 0, 0)
    /\ utilsPoint = Vec(0, 0, 0)
    /\ gridPc = "idle"

\* POIProvider is mounted and the startup load has ended: the list is the one
\* of the file, and no update is queued
QueueInit ==
    /\ pois \in FileContents
    /\ isLoading = FALSE
    /\ error = "null"
    /\ fetchPc = "settled"
    /\ lastOp = [op |-> "loadPOIs"]
    /\ poiOps = 0
    /\ poiQueue = <<>>
    /\ returned = [op |-> "none"]
    /\ storeCalls = 0
    /\ queuePc = "live"

\* EuropaSphere is mounted: useState(false) of contextLost and of
\* userHasInteracted, the mesh attached and not rotated, marker mode on or off
RotationInit ==
    /\ meshRef = TRUE
    /\ canvasRef = TRUE
    /\ sphere = [center |-> Vec(0, 0, 0), radius |-> GlobeRadius]
    /\ ray = [origin |-> Vec(0, 0, 0), direction |-> Vec(FP, 0, 0)]
    /\ intersection = Null
    /\ resolverPc = "idle"
    /\ camera = Vec(0, 0, 3 * FP)
    /\ isMarkerMode \in BOOLEAN
    /\ onMarkerPlaced = FALSE
    /\ intersectionPoint = NoPreview
    /\ invalidations = 0
    /\ effects = <<>>
    /\ calls = <<>>
    /\ event = [type |-> "none"]
    /\ pointerEvents = 0
    /\ pointerPc = "idle"
    /\ rotationY = 0
    /\ userHasInteracted = FALSE
    /\ contextLost = FALSE
    /\ rotationOp = [op |-> "none"]
    /\ rotationOps = 0
    /\ rotationPc = "live"

\* the application around the components is not in use
\* a point of the grid is about to be placed
GridInit ==
    /\ gridGeo \in GeoInputs
    /\ gridPoint = Vec(0, 0, 0)
    /\ utilsPoint = Vec(0, 0, 0)
    /\ gridPc = "ready"

AppIdle == WorkflowIdle /\ QueueIdle /\ RotationIdle /\ GridIdle

\* the components around the geometry core are not in use
ComponentIdle == PointerIdle /\ POIsIdle /\ ScaleIdle /\ DebounceIdle /\ AppIdle

\* the resolver is about to be used, the converter is not
InitResolver == ResolverInit /\ ConverterIdle /\ ComponentIdle

\* the converter is about to be used, the resolver is not
InitConverter == ResolverIdle /\ ConverterInit /\ ComponentIdle

\* the pointer handlers are about to be used
InitPointer ==
    PointerInit /\ ConverterIdle /\ POIsIdle /\ ScaleIdle /\ DebounceIdle /\ AppIdle

\* the POI store is about to be used
InitPOIs ==
    /\ ResolverIdle /\ ConverterIdle /\ PointerIdle /\ POIsInit /\ ScaleIdle
    /\ DebounceIdle /\ AppIdle

\* the frames are about to run
InitScale ==
    ScaleInit /\ ConverterIdle /\ PointerIdle /\ POIsIdle /\ DebounceIdle /\ AppIdle

\* the debounced pointer moves are about to be used
InitDebounce == DebounceInit /\ ConverterIdle /\ POIsIdle /\ ScaleIdle /\ AppIdle

\* the update queue of the POI store is about to be used
InitQueue ==
    /\ ResolverIdle /\ ConverterIdle /\ PointerIdle /\ ScaleIdle /\ DebounceIdle
    /\ QueueInit /\ WorkflowIdle /\ RotationIdle /\ GridIdle

\* the frames and the events of the auto-rotation are about to be handled
InitRotation ==
    /\ RotationInit /\ ConverterIdle /\ POIsIdle /\ ScaleIdle /\ DebounceIdle
    /\ WorkflowIdle /\ QueueIdle /\ GridIdle

\* the add-marker workflow is about to be used
InitWorkflow ==
    /\ WorkflowInit /\ ConverterIdle /\ ScaleIdle /\ DebounceIdle
    /\ QueueIdle /\ RotationIdle /\ GridIdle

\* the grid lines are about to be built
InitGrid ==
    /\ ResolverIdle /\ ConverterIdle /\ PointerIdle /\ POIsIdle /\ ScaleIdle
    /\ DebounceIdle /\ WorkflowIdle /\ QueueIdle /\ RotationIdle /\ GridInit

Init ==
    \/ InitResolver
    \/ InitConverter
    \/ InitPointer
    \/ InitPOIs
    \/ InitScale
    \/ InitDebounce
    \/ InitWorkflow
    \/ InitQueue
    \/ InitRotation
    \/ InitGrid

\* handlePointerMove / handlePointerDown call calculateIntersection
CalculateIntersectionCall ==
    /\ resolverPc = "ready"
    /\ intersection' = calculateIntersection(meshRef, canvasRef, ray, sphere)
    /\ resolverPc' = "done"
    /\ UNCHANGED <<meshRef, canvasRef, ray, sphere, converterVars, componentVars, appVars>>

\* a caller places a latitude and longitude: latLongToVector3
LatLongToVector3Call ==
    /\ converterPc = "ready"
    /\ geo.given
    /\ LET v == latLongToVector3(geo.lat, geo.long, geo.radius)
       IN  position' = Position(v.x, v.y, v.z)
    /\ converterPc' = "placed"
    /\ UNCHANGED <<geo, latLong, consoleErrors, resolverVars, componentVars, appVars>>

\* a caller converts a position: vectorToLatLong
VectorToLatLongCall ==
    /\ \/ converterPc = "ready" /\ ~geo.given
       \/ converterPc = "placed"
    /\ LET out == vectorToLatLong(position, geo.radius)
       IN  /\ latLong' = [lat |-> out.lat, long |-> out.long]
           /\ consoleErrors' = consoleErrors + (IF out.logged THEN 1 ELSE 0)
    /\ converterPc' = "done"
    /\ UNCHANGED <<geo, position, resolverVars, componentVars, appVars>>

\* a pointer move over the globe: handlePointerMove
HandlePointerMove(pixel) ==
    /\ pointerPc = "live"
    /\ pointerEvents < MaxEvents
    /\ LET r == PointerRay(camera, pixel)
           result == calculateIntersection(meshRef, canvasRef, r, sphere)
           out == handlePointerMove(meshRef, canvasRef, intersectionPoint, result)
       IN  /\ intersectionPoint' = out.preview
           /\ invalidations' = invalidations + (IF out.invalidated THEN 1 ELSE 0)
           /\ calls' = IF out.cast
                       THEN Append(calls, [ray |-> r, sphere |-> sphere, result |-> result])
                       ELSE calls
    /\ event' = [type |-> "pointermove", pixel |-> pixel]
    /\ pointerEvents' = pointerEvents + 1
    /\ UNCHANGED <<camera, isMarkerMode, onMarkerPlaced, effects, pointerPc,
                   resolverVars, converterVars, poiVars, scaleVars, debounceVars, appVars>>

\* a pointer press on the globe: handlePointerDown
HandlePointerDown(pixel) ==
    /\ pointerPc = "live"
    /\ pointerEvents < MaxEvents
    /\ LET r == PointerRay(camera, pixel)
           result == calculateIntersection(meshRef, canvasRef, r, sphere)
           out == handlePointerDown(isMarkerMode, meshRef, canvasRef, onMarkerPlaced, result)
       IN  /\ effects' = effects \o out.made
           /\ consoleErrors' = consoleErrors + (IF out.logged THEN 1 ELSE 0)
           /\ calls' = IF out.cast
                       THEN Append(calls, [ray |-> r, sphere |-> sphere, result |-> result])
                       ELSE calls
    /\ event' = [type |-> "pointerdown", pixel |-> pixel]
    /\ pointerEvents' = pointerEvents + 1
    /\ UNCHANGED <<camera, isMarkerMode, onMarkerPlaced, intersectionPoint, invalidations,
                   pointerPc, resolverVars, geo, position, latLong, converterPc, poiVars,
                   scaleVars, debounceVars, appVars>>

\* loadPOIs: the response arrived and holds a list: setPOIs(data.pois);
\* setError(null); setIsLoading(false)
LoadPOIsSucceeds(filePOIs) ==
    /\ fetchPc = "pending"
    /\ pois' = LoadedPOIs(pois, filePOIs)
    /\ error' = "null"
    /\ isLoading' = FALSE
    /\ fetchPc' = "settled"
    /\ lastOp' = [op |-> "loadPOIs", ok |-> TRUE, loaded |-> filePOIs]
    /\ UNCHANGED <<poiOps, resolverVars, converterVars, pointerVars, scaleVars,
                   debounceVars, appVars>>

\* loadPOIs: the fetch failed, the response was not ok or held no list:
\* setError(message); setIsLoading(false)
LoadPOIsFails(message) ==
    /\ fetchPc = "pending"
    /\ error' = message
    /\ isLoading' = FALSE
    /\ fetchPc' = "settled"
    /\ lastOp' = [op |-> "loadPOIs", ok |-> FALSE, thrown |-> message]
    /\ UNCHANGED <<pois, poiOps, resolverVars, converterVars, pointerVars, scaleVars,
                   debounceVars, appVars>>

\* The calls of the store below are a call and the render that follows it, as
\* one step: no update is queued beside them (queuePc = "idle").

\* addPOI(poiData), the id made from the clock and Math.random
AddPOI(poiData, id) ==
    /\ fetchPc # "idle"
    /\ queuePc = "idle"
    /\ poiOps < MaxOps
    /\ pois' = AppendPOI(pois, NewPOI(poiData, id))
    /\ lastOp' = [op |-> "addPOI", id |-> id]
    /\ poiOps' = poiOps + 1
    /\ UNCHANGED <<isLoading, error, fetchPc, resolverVars, converterVars, pointerVars,
                   scaleVars, debounceVars, appVars>>

\* updatePOI(id, updates)
UpdatePOI(id, updates) ==
    /\ fetchPc # "idle"
    /\ queuePc = "idle"
    /\ poiOps < MaxOps
    /\ pois' = UpdatedPOIs(pois, id, updates)
    /\ lastOp' = [op |-> "updatePOI", id |-> id, updates |-> updates]
    /\ poiOps' = poiOps + 1
    /\ UNCHANGED <<isLoading, error, fetchPc, resolverVars, converterVars, pointerVars,
                   scaleVars, debounceVars, appVars>>

\* removePOI(id)
RemovePOI(id) ==
    /\ fetchPc # "idle"
    /\ queuePc = "idle"
    /\ poiOps < MaxOps
    /\ pois' = RemainingPOIs(pois, id)
    /\ lastOp' = [op |-> "removePOI", id |-> id]
    /\ poiOps' = poiOps + 1
    /\ UNCHANGED <<isLoading, error, fetchPc, resolverVars, converterVars, pointerVars,
                   scaleVars, debounceVars, appVars>>

\* a frame of EuropaSphere with the camera at the distance from the globe:
\* if (!meshRef.current) return; ... setMarkerScale(scale)
EuropaSphereFrame(distanceToCamera) ==
    /\ scalePc = "live"
    /\ cameraDistance' = distanceToCamera
    /\ markerScale' = IF meshRef THEN scale(distanceToCamera) ELSE markerScale
    /\ UNCHANGED <<scaleGiven, markerDistance, poiMarkerScale, scalePc,
                   resolverVars, converterVars, pointerVars, poiVars, debounceVars, appVars>>

\* a frame of POIMarker with the camera at the distance from the marker:
\* if (scale !== undefined) { setMarkerScale(scale); return; } ...
\* setMarkerScale(size); the prop scale is the markerScale of EuropaSphere
POIMarkerFrame(distanceToCamera) ==
    /\ scalePc = "live"
    /\ markerDistance' = distanceToCamera
    /\ poiMarkerScale' = IF scaleGiven THEN markerScale ELSE size(distanceToCamera)
    /\ UNCHANGED <<cameraDistance, markerScale, scaleGiven, scalePc,
                   resolverVars, converterVars, pointerVars, poiVars, debounceVars, appVars>>

\* the state the debounced pointer moves leave alone
DebounceFrame ==
    <<camera, isMarkerMode, onMarkerPlaced, invalidations, effects, calls, event,
      pointerEvents, pointerPc, resolverVars, converterVars, poiVars, scaleVars,
      appVars>>

\* a pointer move over the globe, debounced: handlePointerMove calls
\* debouncedSetMousePos(event.clientX, event.clientY), which clears the timer
\* of the call before and sets a new one
DebouncedPointerMove(pixel) ==
    /\ debouncePc = "live"
    /\ moves < MaxMoves
    /\ moves' = moves + 1
    /\ IF ~meshRef
       THEN UNCHANGED <<timers, timeoutId, sinceCall, lastArgs, callsPending, bursts>>
       ELSE /\ timers' = SetTimeout(ClearTimeout(timers, timeoutId), moves + 1, pixel,
                                    DebounceWait)
            /\ timeoutId' = moves + 1
            /\ sinceCall' = 0
            /\ lastArgs' = pixel
            /\ callsPending' = callsPending + 1
            /\ bursts' = bursts + (IF callsPending = 0 THEN 1 ELSE 0)
    /\ UNCHANGED <<mousePos, needsCalculation, lastRun, mouseUpdates,
                   calculations, debouncePc,
                   intersectionPoint, DebounceFrame>>

\* one ms passes
Tick ==
    /\ debouncePc = "live"
    /\ timers' = Elapse(timers)
    /\ sinceCall' = Min(DebounceWait, sinceCall + 1)
    /\ UNCHANGED <<timeoutId, mousePos, needsCalculation, lastArgs, callsPending, lastRun,
                   moves, bursts, mouseUpdates, calculations, debouncePc, intersectionPoint,
                   DebounceFrame>>

\* a timer is due and the browser runs its callback, the wrapped function:
\* setMousePos({ x, y }); setNeedsCalculation(true).  React runs the effect of
\* the render these updates cause before the next timer callback
TimerFires(t) ==
    /\ debouncePc = "live"
    /\ t \in timers
    /\ t.remaining = 0
    /\ ~needsCalculation
    /\ timers' = timers \ {t}
    /\ mousePos' = MousePosAt(t.args)
    /\ needsCalculation' = TRUE
    /\ lastRun' = [ran |-> TRUE, elapsed |-> sinceCall, args |-> t.args,
                   calls |-> callsPending]
    /\ callsPending' = 0
    /\ mouseUpdates' = mouseUpdates + 1
    /\ UNCHANGED <<timeoutId, sinceCall, lastArgs, moves, bursts, calculations,
                   debouncePc, intersectionPoint, DebounceFrame>>

\* the effect on [camera, gl.domElement, mousePos, needsCalculation, radius]:
\* with needsCalculation set it intersects the ray through mousePos with the
\* globe, stores the point and resets needsCalculation
IntersectionEffect ==
    /\ debouncePc = "live"
    /\ needsCalculation
    /\ mousePos.set
    /\ meshRef
    /\ intersectionPoint' = EffectIntersectionPoint(PointerRay(camera, mousePos.pixel), sphere)
    /\ needsCalculation' = FALSE
    /\ calculations' = calculations + 1
    /\ UNCHANGED <<timers, timeoutId, mousePos, sinceCall, lastArgs, callsPending, lastRun,
                   moves, bursts, mouseUpdates, debouncePc, DebounceFrame>>

\* addMarker(lat, long, title, description, category) called through the ref
\* of EuropaSphere: it calls addPOI once
AddMarker(lat, long, title, description, category, id) ==
    /\ fetchPc # "idle"
    /\ queuePc = "idle"
    /\ poiOps < MaxOps
    /\ pois' = AppendPOI(pois, NewPOI(addMarker(lat, long, title, description, category), id))
    /\ lastOp' = [op |-> "addMarker", id |-> id, lat |-> lat, long |-> long,
                  title |-> title, description |-> description, category |-> category]
    /\ poiOps' = poiOps + 1
    /\ UNCHANGED <<isLoading, error, fetchPc, resolverVars, converterVars, pointerVars,
                   scaleVars, debounceVars, appVars>>

\* the state the workflow leaves alone
WorkflowFrame ==
    <<europaSphereRef, workflowPc, resolverVars, geo, position, latLong, converterPc,
      camera, onMarkerPlaced, intersectionPoint, invalidations, calls, event,
      pointerEvents, pointerPc, isLoading, error, fetchPc, lastOp, poiOps, scaleVars,
      debounceVars, queueVars, rotationVars, gridVars>>

\* the state of App
App == AppState(isMarkerMode, markerModalData, showModal)

\* an operation of the workflow has run
WorkflowStep(op) ==
    /\ workflowPc = "live"
    /\ workflowOps < MaxSteps
    /\ workflowOp' = op
    /\ workflowOps' = workflowOps + 1

\* a click on the tools button: onMarkerModeToggle
ToggleMarkerMode ==
    /\ WorkflowStep("toggleMarkerMode")
    /\ LET app == toggleMarkerMode(App)
       IN  /\ isMarkerMode' = app.isMarkerMode
           /\ markerModalData' = app.markerModalData
           /\ showModal' = app.showModal
    /\ UNCHANGED <<isModalOpen, newMarkerTitle, newMarkerDescription, newMarkerCategory,
                   addMarkerCalls, pois, effects, consoleErrors, WorkflowFrame>>

\* a pointer press on the globe while the modal does not cover it:
\* handlePointerDown of EuropaSphere, whose onMarkerPlaced is handleMarkerPlaced
\* of App and whose event the listeners of App and of UIOverlay hear
GlobePointerDown(pixel) ==
    /\ WorkflowStep("pointerDown")
    /\ europaSphereRef
    /\ ~isModalOpen
    /\ LET r == PointerRay(camera, pixel)
           result == calculateIntersection(meshRef, canvasRef, r, sphere)
           out == handlePointerDown(isMarkerMode, meshRef, canvasRef, onMarkerPlaced, result)
           st == Delivered(out.made,
                           [isMarkerMode |-> isMarkerMode,
                            markerModalData |-> markerModalData,
                            showModal |-> showModal,
                            isModalOpen |-> isModalOpen])
       IN  /\ effects' = effects \o out.made
           /\ consoleErrors' = consoleErrors + (IF out.logged THEN 1 ELSE 0)
           /\ markerModalData' = st.markerModalData
           /\ showModal' = st.showModal
           /\ isModalOpen' = st.isModalOpen
    /\ UNCHANGED <<isMarkerMode, newMarkerTitle, newMarkerDescription, newMarkerCategory,
                   addMarkerCalls, pois, WorkflowFrame>>

\* the user types in the title field of the modal: setNewMarkerTitle
SetNewMarkerTitle(title) ==
    /\ WorkflowStep("setNewMarkerTitle")
    /\ isModalOpen
    /\ title # newMarkerTitle
    /\ newMarkerTitle' = title
    /\ UNCHANGED <<isMarkerMode, markerModalData, showModal, isModalOpen,
                   newMarkerDescription, newMarkerCategory, addMarkerCalls, pois, effects,
                   consoleErrors, WorkflowFrame>>

\* the user types in the description field: setNewMarkerDescription
SetNewMarkerDescription(description) ==
    /\ WorkflowStep("setNewMarkerDescription")
    /\ isModalOpen
    /\ description # newMarkerDescription
    /\ newMarkerDescription' = description
    /\ UNCHANGED <<isMarkerMode, markerModalData, showModal, isModalOpen, newMarkerTitle,
                   newMarkerCategory, addMarkerCalls, pois, effects, consoleErrors,
                   WorkflowFrame>>

\* the user selects a category: setNewMarkerCategory
SetNewMarkerCategory(category) ==
    /\ WorkflowStep("setNewMarkerCategory")
    /\ isModalOpen
    /\ category # newMarkerCategory
    /\ newMarkerCategory' = category
    /\ UNCHANGED <<isMarkerMode, markerModalData, showModal, isModalOpen, newMarkerTitle,
                   newMarkerDescription, addMarkerCalls, pois, effects, consoleErrors,
                   WorkflowFrame>>

\* the form of the modal is submitted: handleMarkerSubmit of UIOverlay, whose
\* onCreateMarker is createMarker of App; createMarker takes the title and the
\* description and calls addMarker of EuropaSphere, which calls addPOI
HandleMarkerSubmit(id) ==
    /\ WorkflowStep("handleMarkerSubmit")
    /\ isModalOpen
    /\ IF Truthy(Trim(newMarkerTitle))
       THEN LET out == createMarker(App, europaSphereRef, newMarkerTitle,
                                    newMarkerDescription)
            IN  /\ isMarkerMode' = out.app.isMarkerMode
                /\ markerModalData' = out.app.markerModalData
                /\ showModal' = out.app.showModal
                /\ addMarkerCalls' = addMarkerCalls \o out.made
                /\ pois' = IF out.made = <<>> THEN pois
                           ELSE LET c == out.made[1]
                                IN  AppendPOI(pois,
                                              NewPOI(addMarker(c.lat, c.long, c.title,
                                                               c.description, c.category),
                                                     id))
                /\ newMarkerTitle' = <<>>
                /\ newMarkerDescription' = ""
                /\ newMarkerCategory' = LANDMARK
                /\ isModalOpen' = FALSE
       ELSE UNCHANGED <<isMarkerMode, markerModalData, showModal, addMarkerCalls, pois,
                        newMarkerTitle, newMarkerDescription, newMarkerCategory,
                        isModalOpen>>
    /\ UNCHANGED <<effects, consoleErrors, WorkflowFrame>>

\* a click on Cancel in the modal: handleCancelMarker
HandleCancelMarker ==
    /\ WorkflowStep("handleCancelMarker")
    /\ isModalOpen
    /\ isModalOpen' = FALSE
    /\ LET app == toggleMarkerMode(App)
       IN  /\ isMarkerMode' = app.isMarkerMode
           /\ markerModalData' = app.markerModalData
           /\ showModal' = app.showModal
    /\ UNCHANGED <<newMarkerTitle, newMarkerDescription, newMarkerCategory,
                   addMarkerCalls, pois, effects, consoleErrors, WorkflowFrame>>

\* the state the calls of the store leave alone
QueueFrame ==
    <<isLoading, error, fetchPc, lastOp, poiOps, queuePc, resolverVars, converterVars,
      pointerVars, scaleVars, debounceVars, workflowVars, rotationVars, gridVars>>

\* addPOI(poiData) in an event handler: the update is queued for the next render
AddPOICall(poiData, id) ==
    /\ queuePc = "live"
    /\ storeCalls < MaxCalls
    /\ poiQueue' = Append(poiQueue, AddUpdater(NewPOI(poiData, id)))
    /\ returned' = [op |-> "addPOI", id |-> id, value |-> id]
    /\ storeCalls' = storeCalls + 1
    /\ UNCHANGED <<pois, QueueFrame>>

\* updatePOI(id, updates) in an event handler
UpdatePOICall(id, updates) ==
    /\ queuePc = "live"
    /\ storeCalls < MaxCalls
    /\ LET out == updatePOI(pois, poiQueue, id, updates)
       IN  /\ poiQueue' = out.queue
           /\ returned' = [op |-> "updatePOI", id |-> id, value |-> out.value]
    /\ storeCalls' = storeCalls + 1
    /\ UNCHANGED <<pois, QueueFrame>>

\* removePOI(id) in an event handler
RemovePOICall(id) ==
    /\ queuePc = "live"
    /\ storeCalls < MaxCalls
    /\ LET out == removePOI(pois, poiQueue, id)
       IN  /\ poiQueue' = out.queue
           /\ returned' = [op |-> "removePOI", id |-> id, value |-> out.value]
    /\ storeCalls' = storeCalls + 1
    /\ UNCHANGED <<pois, QueueFrame>>

\* React renders POIProvider: the queued updaters run and the list they leave
\* becomes the state pois
RenderPOIProvider ==
    /\ queuePc = "live"
    /\ poiQueue # <<>>
    /\ pois' = RenderedPOIs(pois, poiQueue)
    /\ poiQueue' = <<>>
    /\ UNCHANGED <<returned, storeCalls, QueueFrame>>

\* the state the frames and events of the auto-rotation leave alone
RotationFrameVars ==
    <<canvasRef, ray, sphere, intersection, resolverPc, camera, onMarkerPlaced,
      intersectionPoint, effects, calls, event, pointerEvents, pointerPc, rotationPc,
      converterVars, poiVars, scaleVars, debounceVars, workflowVars, queueVars, gridVars>>

\* a frame or an event of the auto-rotation is handled
RotationStep(op) ==
    /\ rotationPc = "live"
    /\ rotationOps < MaxRotationOps
    /\ rotationOp' = op
    /\ rotationOps' = rotationOps + 1

\* a frame: useFrame((_, delta) => ...) rotates the mesh and invalidates
RotationFrame(delta) ==
    /\ RotationStep([op |-> "frame", delta |-> delta])
    /\ IF autoRotates(meshRef, isMarkerMode, contextLost, userHasInteracted)
       THEN /\ rotationY' = RotatedBy(rotationY, delta)
            /\ invalidations' = invalidations + 1
       ELSE UNCHANGED <<rotationY, invalidations>>
    /\ UNCHANGED <<meshRef, isMarkerMode, userHasInteracted, contextLost,
                   RotationFrameVars>>

\* 'orbit-controls-change' on window: handleOrbitStart
OrbitControlsChange ==
    /\ RotationStep([op |-> "orbit-controls-change"])
    /\ userHasInteracted' = TRUE
    /\ UNCHANGED <<rotationY, invalidations, meshRef, isMarkerMode, contextLost,
                   RotationFrameVars>>

\* 'wheel' on the canvas: handleWheel
CanvasWheel ==
    /\ RotationStep([op |-> "wheel"])
    /\ userHasInteracted' = TRUE
    /\ UNCHANGED <<rotationY, invalidations, meshRef, isMarkerMode, contextLost,
                   RotationFrameVars>>

\* 'pointerdown' on the canvas: handlePointerDown of the effect
CanvasPointerDown(button) ==
    /\ RotationStep([op |-> "pointerdown", button |-> button])
    /\ userHasInteracted' = IF PointerDownInteracts(button) THEN TRUE
                             ELSE userHasInteracted
    /\ UNCHANGED <<rotationY, invalidations, meshRef, isMarkerMode, contextLost,
                   RotationFrameVars>>

\* 'touchstart' on the canvas: handleTouch
CanvasTouchStart(touches) ==
    /\ RotationStep([op |-> "touchstart", touches |-> touches])
    /\ userHasInteracted' = IF TouchInteracts(touches) THEN TRUE ELSE userHasInteracted
    /\ UNCHANGED <<rotationY, invalidations, meshRef, isMarkerMode, contextLost,
                   RotationFrameVars>>

\* 'webglcontextlost': setContextLost(true); the component then renders the
\* message in place of the mesh, so the mesh is detached
WebGLContextLost ==
    /\ RotationStep([op |-> "webglcontextlost"])
    /\ ~contextLost
    /\ contextLost' = TRUE
    /\ meshRef' = FALSE
    /\ UNCHANGED <<rotationY, invalidations, isMarkerMode, userHasInteracted,
                   RotationFrameVars>>

\* 'webglcontextrestored': setContextLost(false); invalidate(); the mesh is
\* rendered again, a new mesh with rotation.y = 0
WebGLContextRestored ==
    /\ RotationStep([op |-> "webglcontextrestored"])
    /\ contextLost
    /\ contextLost' = FALSE
    /\ meshRef' = TRUE
    /\ rotationY' = 0
    /\ invalidations' = invalidations + 1
    /\ UNCHANGED <<isMarkerMode, userHasInteracted, RotationFrameVars>>

\* the parent changes the prop isMarkerMode
MarkerModeChanges ==
    /\ RotationStep([op |-> "isMarkerMode"])
    /\ isMarkerMode' = ~isMarkerMode
    /\ UNCHANGED <<rotationY, invalidations, meshRef, userHasInteracted, contextLost,
                   RotationFrameVars>>

\* GridLines places a point of a line or a direction marker with its own
\* latLongToVector3; the same arguments are given to the one of utils.ts
GridLinesPlacesPoint ==
    /\ gridPc = "ready"
    /\ gridGeo.given
    /\ gridPoint' = GridLines_latLongToVector3(gridGeo.lat, gridGeo.long, gridGeo.radius)
    /\ utilsPoint' = latLongToVector3(gridGeo.lat, gridGeo.long, gridGeo.radius)
    /\ gridPc' = "placed"
    /\ UNCHANGED <<gridGeo, resolverVars, converterVars, componentVars, workflowVars,
                   queueVars, rotationVars>>

Next ==
    \/ CalculateIntersectionCall
    \/ LatLongToVector3Call
    \/ VectorToLatLongCall
    \/ \E pixel \in Pixels : HandlePointerMove(pixel)
    \/ \E pixel \in Pixels : HandlePointerDown(pixel)
    \/ \E filePOIs \in FileContents : LoadPOIsSucceeds(filePOIs)
    \/ \E message \in LoadErrors : LoadPOIsFails(message)
    \/ \E poiData \in NewPOIData, id \in GeneratedIds : AddPOI(poiData, id)
    \/ \E id \in FileIds \cup GeneratedIds, updates \in Updates : UpdatePOI(id, updates)
    \/ \E id \in FileIds \cup GeneratedIds : RemovePOI(id)
    \/ \E m \in MarkerArguments, id \in GeneratedIds :
          AddMarker(m.lat, m.long, m.title, m.description, m.category, id)
    \/ \E distanceToCamera \in Distances : EuropaSphereFrame(distanceToCamera)
    \/ \E distanceToCamera \in Distances : POIMarkerFrame(distanceToCamera)
    \/ \E pixel \in Pixels : DebouncedPointerMove(pixel)
    \/ Tick
    \/ \E t \in timers : TimerFires(t)
    \/ IntersectionEffect
    \/ ToggleMarkerMode
    \/ \E pixel \in Pixels : GlobePointerDown(pixel)
    \/ \E title \in Titles : SetNewMarkerTitle(title)
    \/ \E description \in Descriptions : SetNewMarkerDescription(description)
    \/ \E category \in SelectedCategories : SetNewMarkerCategory(category)
    \/ \E id \in GeneratedIds : HandleMarkerSubmit(id)
    \/ HandleCancelMarker
    \/ \E poiData \in NewPOIData, id \in GeneratedIds : AddPOICall(poiData, id)
    \/ \E id \in FileIds \cup GeneratedIds, updates \in Updates : UpdatePOICall(id, updates)
    \/ \E id \in FileIds \cup GeneratedIds : RemovePOICall(id)
    \/ RenderPOIProvider
    \/ \E delta \in Deltas : RotationFrame(delta)
    \/ OrbitControlsChange
    \/ CanvasWheel
    \/ \E button \in Buttons : CanvasPointerDown(button)
    \/ \E touches \in TouchCounts : CanvasTouchStart(touches)
    \/ WebGLContextLost
    \/ WebGLContextRestored
    \/ MarkerModeChanges
    \/ GridLinesPlacesPoint

Spec == Init /\ [][Next]_vars

ResolverNext == CalculateIntersectionCall

\* the resolver alone
SpecResolver == InitResolver /\ [][ResolverNext]_vars

ConverterNext ==
    \/ LatLongToVector3Call
    \/ VectorToLatLongCall

\* the converter alone
SpecConverter == InitConverter /\ [][ConverterNext]_vars

PointerNext ==
    \/ \E pixel \in Pixels : HandlePointerMove(pixel)
    \/ \E pixel \in Pixels : HandlePointerDown(pixel)

\* the pointer handlers of the mounted component
SpecPointer == InitPointer /\ [][PointerNext]_vars

POIsNext ==
    \/ \E filePOIs \in FileContents : LoadPOIsSucceeds(filePOIs)
    \/ \E message \in LoadErrors : LoadPOIsFails(message)
    \/ \E poiData \in NewPOIData, id \in GeneratedIds : AddPOI(poiData, id)
    \/ \E id \in FileIds \cup GeneratedIds, updates \in Updates : UpdatePOI(id, updates)
    \/ \E id \in FileIds \cup GeneratedIds : RemovePOI(id)
    \/ \E m \in MarkerArguments, id \in GeneratedIds :
          AddMarker(m.lat, m.long, m.title, m.description, m.category, id)

\* the POI store from its mounting on
SpecPOIs == InitPOIs /\ [][POIsNext]_vars

\* the startup load ends: the promise of fetch, and of response.json(), settles
LoadSettles ==
    \/ \E filePOIs \in FileContents : LoadPOIsSucceeds(filePOIs)
    \/ \E message \in LoadErrors : LoadPOIsFails(message)

\* the POI store with a fetch that the browser brings to an end
SpecPOIsLoad == InitPOIs /\ [][POIsNext]_vars /\ WF_vars(LoadSettles)

ScaleNext ==
    \/ \E distanceToCamera \in Distances : EuropaSphereFrame(distanceToCamera)
    \/ \E distanceToCamera \in Distances : POIMarkerFrame(distanceToCamera)

\* the frames of the mounted components
SpecScale == InitScale /\ [][ScaleNext]_vars

DebounceNext ==
    \/ \E pixel \in Pixels : DebouncedPointerMove(pixel)
    \/ Tick
    \/ \E t \in timers : TimerFires(t)
    \/ IntersectionEffect

\* the debounced pointer moves of the mounted component
SpecDebounce == InitDebounce /\ [][DebounceNext]_vars

WorkflowNext ==
    \/ ToggleMarkerMode
    \/ \E pixel \in Pixels : GlobePointerDown(pixel)
    \/ \E title \in Titles : SetNewMarkerTitle(title)
    \/ \E description \in Descriptions : SetNewMarkerDescription(description)
    \/ \E category \in SelectedCategories : SetNewMarkerCategory(category)
    \/ \E id \in GeneratedIds : HandleMarkerSubmit(id)
    \/ HandleCancelMarker

\* the add-marker workflow of the mounted application
SpecWorkflow == InitWorkflow /\ [][WorkflowNext]_vars

QueueNext ==
    \/ \E poiData \in NewPOIData, id \in GeneratedIds : AddPOICall(poiData, id)
    \/ \E id \in FileIds \cup GeneratedIds, updates \in Updates : UpdatePOICall(id, updates)
    \/ \E id \in FileIds \cup GeneratedIds : RemovePOICall(id)
    \/ RenderPOIProvider

\* the calls of the POI store and the renders that run their updaters
SpecQueue == InitQueue /\ [][QueueNext]_vars

RotationNext ==
    \/ \E delta \in Deltas : RotationFrame(delta)
    \/ OrbitControlsChange
    \/ CanvasWheel
    \/ \E button \in Buttons : CanvasPointerDown(button)
    \/ \E touches \in TouchCounts : CanvasTouchStart(touches)
    \/ WebGLContextLost
    \/ WebGLContextRestored
    \/ MarkerModeChanges

\* the frames and events of the auto-rotation
SpecRotation == InitRotation /\ [][RotationNext]_vars

GridNext == GridLinesPlacesPoint

\* the grid lines alone
SpecGrid == InitGrid /\ [][GridNext]_vars

-----------------------------------------------------------------------------
(* Properties of the resolver, checked under SpecResolver *)

\* the call was made with both refs attached, so the quadratic was solved
Solved == resolverPc = "done" /\ meshRef /\ canvasRef

UnitSphereAtOrigin == [center |-> Vec(0, 0, 0), radius |-> FP]

\* the ray origin is on the sphere or outside it: |o - c|^2 >= r^2
OriginNotInside(r, s) == CoeffC(r, s) >= 0

\* the ray origin is strictly inside the sphere: |o - c|^2 < r^2
OriginInside(r, s) == CoeffC(r, s) < 0

\* the ray does not approach the centre of the sphere: (o - c).d >= 0
HeadingAway(r, s) == CoeffB(r, s) >= 0

\* C1: when the discriminant is non-negative and neither root is greater than
\* 0, calculateIntersection returns null; so it does whenever the line meets
\* the sphere but the origin is not inside it and the ray does not approach
\* its centre (the sphere lies behind the ray origin), and for origin (0,0,5), direction (0,0,1) and the unit sphere
\* at the origin.
C1_MissWhenNoPositiveRoot ==
    /\ (/\ Solved
        /\ discriminant(ray, sphere) >= 0
        /\ ~(T1(ray, sphere) > 0)
        /\ ~(T2(ray, sphere) > 0))
       => intersection = Null
    /\ (/\ Solved
        /\ discriminant(ray, sphere) >= 0
        /\ OriginNotInside(ray, sphere)
        /\ HeadingAway(ray, sphere))
       => intersection = Null
    /\ (/\ Solved
        /\ ray = [origin |-> Vec(0, 0, 5 * FP), direction |-> Vec(0, 0, FP)]
        /\ sphere = UnitSphereAtOrigin)
       => intersection = Null

\* C1 witness: the ray from (0,0,5) along (0,0,1) was resolved against the unit
\* sphere: both roots are real and negative, and the result is null.
C1_Witness ==
    /\ Solved
    /\ ray = [origin |-> Vec(0, 0, 5 * FP), direction |-> Vec(0, 0, FP)]
    /\ sphere = UnitSphereAtOrigin
    /\ discriminant(ray, sphere) >= 0
    /\ T1(ray, sphere) < 0
    /\ T2(ray, sphere) < 0
    /\ intersection = Null

ExactlyOnePositive(t1, t2) == (t1 > 0) # (t2 > 0)

\* C2: when exactly one root is greater than 0, calculateIntersection returns
\* the surface point of that root, and a ray whose origin is inside the sphere
\* always hits; for the sphere of radius 2 at the origin and
\* the ray from (0,0,0) along (1,0,0) the hit is at (2,0,0).
C2_HitAtTheOnePositiveRoot ==
    /\ (/\ Solved
        /\ discriminant(ray, sphere) >= 0
        /\ ExactlyOnePositive(T1(ray, sphere), T2(ray, sphere)))
       => /\ intersection.hit
          /\ intersection =
                SurfacePoint(ray, sphere, Max(T1(ray, sphere), T2(ray, sphere)))
    /\ (Solved /\ OriginInside(ray, sphere)) => intersection.hit
    /\ (/\ Solved
        /\ ray = [origin |-> Vec(0, 0, 0), direction |-> Vec(FP, 0, 0)]
        /\ sphere = [center |-> Vec(0, 0, 0), radius |-> 2 * FP])
       => /\ intersection.hit
          /\ intersection.position = Vec(2 * FP, 0, 0)

\* C2 witness: the ray from the centre of the sphere of radius 2 was resolved:
\* one root is negative, one positive, and the hit is at (2,0,0).
C2_Witness ==
    /\ Solved
    /\ ray = [origin |-> Vec(0, 0, 0), direction |-> Vec(FP, 0, 0)]
    /\ sphere = [center |-> Vec(0, 0, 0), radius |-> 2 * FP]
    /\ T1(ray, sphere) < 0
    /\ T2(ray, sphere) > 0
    /\ intersection.hit
    /\ intersection.position = Vec(2 * FP, 0, 0)

\* C3: when both roots are greater than 0, calculateIntersection returns the
\* surface point of min(t1, t2), which is not farther from the ray origin than
\* the surface point of the other root; for the unit sphere at the origin and
\* the ray from (0,0,3) along (0,0,-1) the hit is (0,0,1) with normal (0,0,1).
C3_NearRootWhenBothPositive ==
    /\ (/\ Solved
        /\ discriminant(ray, sphere) >= 0
        /\ T1(ray, sphere) > 0
        /\ T2(ray, sphere) > 0)
       => LET near == Min(T1(ray, sphere), T2(ray, sphere))
              far == Max(T1(ray, sphere), T2(ray, sphere))
          IN  /\ intersection.hit
              /\ intersection = SurfacePoint(ray, sphere, near)
              /\ Length(Sub(PointAt(ray, near), ray.origin))
                    <= Length(Sub(PointAt(ray, far), ray.origin))
    /\ (/\ Solved
        /\ ray = [origin |-> Vec(0, 0, 3 * FP), direction |-> Vec(0, 0, -FP)]
        /\ sphere = UnitSphereAtOrigin)
       => /\ intersection.hit
          /\ intersection.position = Vec(0, 0, FP)
          /\ intersection.normal = Vec(0, 0, FP)

\* C3 witness: the ray from (0,0,3) along (0,0,-1) was resolved against the unit
\* sphere: the roots are 2 and 4 and the hit is the near face (0,0,1).
C3_Witness ==
    /\ Solved
    /\ ray = [origin |-> Vec(0, 0, 3 * FP), direction |-> Vec(0, 0, -FP)]
    /\ sphere = UnitSphereAtOrigin
    /\ T1(ray, sphere) = 2 * FP
    /\ T2(ray, sphere) = 4 * FP
    /\ intersection.hit
    /\ intersection.position = Vec(0, 0, FP)
    /\ intersection.position # Vec(0, 0, -FP)

\* C5: when the discriminant b^2 - 4ac is negative calculateIntersection
\* returns null, and a tangent ray (discriminant 0) whose double root is
\* positive is a hit.
C5_MissIffNegativeDiscriminant ==
    /\ (resolverPc = "done" /\ discriminant(ray, sphere) < 0)
       => intersection = Null
    /\ (/\ Solved
        /\ discriminant(ray, sphere) = 0
        /\ T1(ray, sphere) > 0)
       => intersection.hit

\* C5 witness: a tangent ray was resolved: the discriminant is 0, the double
\* root is positive and the result is a hit.
C5_Witness ==
    /\ Solved
    /\ discriminant(ray, sphere) = 0
    /\ T1(ray, sphere) > 0
    /\ T1(ray, sphere) = T2(ray, sphere)
    /\ intersection.hit

\* the distance of a returned position from the centre of the sphere
DistanceFromCenter == Length(Sub(intersection.position, sphere.center))

\* the root calculateIntersection selected for the current ray and sphere
SelectedT == SelectT(T1(ray, sphere), T2(ray, sphere)).t

\* C9: a returned position is c + r * normalize(p - c) for the point
\* p = origin + t * direction of the selected root t, and its distance from c
\* is r within a relative tolerance of two steps of the number representation.
C9_PositionOnSurface ==
    (resolverPc = "done" /\ intersection.hit)
    => /\ intersection.position =
            Add(sphere.center,
                MultiplyScalar(Normalize(Sub(PointAt(ray, SelectedT), sphere.center)),
                               sphere.radius))
       /\ Abs(DistanceFromCenter - sphere.radius) * FP <= 2 * Ulp * sphere.radius

\* C9 witness: a hit on a sphere of radius 2 that is not centred at the origin,
\* from a ray along a diagonal, lies at distance 2 from the centre.
C9_Witness ==
    /\ resolverPc = "done"
    /\ intersection.hit
    /\ sphere = [center |-> Vec(FP, 0, 0), radius |-> 2 * FP]
    /\ ray.direction \in DiagonalDirections
    /\ Abs(DistanceFromCenter - sphere.radius) * FP <= 2 * Ulp * sphere.radius

-----------------------------------------------------------------------------
(* Properties of the converter, checked under SpecConverter *)

\* vectorToLatLong has been called and has come back, one way or the other
Converted == converterPc \in {"done", "failed"}

C6_LongitudeHalfOpen ==
    (converterPc = "done" /\ position.given /\ Length(position) # 0)
    => (latLong.long > -180 /\ latLong.long <= 180)

\* C7: the position latLongToVector3 gives for latitude 90 or -90, at any
\* longitude and radius, converts back to that latitude and to longitude 0; and
\* whenever vectorToLatLong returns latitude 90 or -90 it returns longitude 0.
C7_PoleLongitudeZero ==
    /\ (converterPc = "done" /\ geo.given /\ Abs(geo.lat) = 90)
       => (latLong.lat = geo.lat /\ latLong.long = 0)
    /\ (converterPc = "done" /\ Abs(latLong.lat) = 90) => latLong.long = 0

\* the longitude atan2 alone gives for the current position
RawLongitude ==
    LET norm == Length(position)
    IN  MathAtan2(Div(position.z, norm), Div(position.x, norm))

\* C7 witness: the north pole of the sphere of radius 100, placed at longitude
\* 45, was converted back: atan2 gives 45 and the longitude returned is 0.
C7_Witness ==
    /\ converterPc = "done"
    /\ geo.given
    /\ geo.lat = 90
    /\ geo.long = 45
    /\ geo.radius = 100 * FP
    /\ RawLongitude = 45
    /\ latLong = [lat |-> 90, long |-> 0]

-----------------------------------------------------------------------------
(* Properties of the geometry core as a whole, checked under Spec *)

\* a step in which latLongToVector3, vectorToLatLong or calculateIntersection
\* was called
GeometryCall == resolverPc' # resolverPc \/ converterPc' # converterPc

\* the call left its arguments as they were (the refs, the ray and the sphere
\* of calculateIntersection, the latitude, longitude and radius of
\* latLongToVector3, the point and radius of vectorToLatLong) and changed no
\* state of a component
ArgumentsAndStateKept ==
    /\ resolverPc' # resolverPc => UNCHANGED <<meshRef, canvasRef, ray, sphere>>
    /\ converterPc' = "placed" => UNCHANGED <<geo, latLong>>
    /\ converterPc' = "done" => UNCHANGED <<geo, position>>
    /\ UNCHANGED componentVars

-----------------------------------------------------------------------------
(* Properties of the POI store, checked under SpecPOIs *)

\* the POI is in the list, with these field values
InList(list, poi) == \E i \in 1..Len(list) : list[i] = poi

\* C12: a POI appended at runtime by addPOI stays in the list with the same
\* field values in every later state until removePOI or updatePOI is called
\* with its id: every step other than such a call keeps it, the completion of
\* the startup load included, whether it comes before or after the addPOI call.
C12_AddedPOIPersists ==
    [][\A i \in 1..Len(pois) :
          (/\ pois[i].id \in GeneratedIds
           /\ ~(lastOp'.op \in {"removePOI", "updatePOI"} /\ lastOp'.id = pois[i].id))
          => InList(pois', pois[i])]_vars

-----------------------------------------------------------------------------
(* Properties of the pointer handlers, checked under SpecPointer *)

\* the step is handlePointerMove handling a pointer move over the attached mesh
MoveHandled ==
    /\ pointerEvents' = pointerEvents + 1
    /\ event'.type = "pointermove"
    /\ meshRef

\* what calculateIntersection returns for the event handled in the step
Returned ==
    calculateIntersection(meshRef, canvasRef, PointerRay(camera, event'.pixel), sphere)

\* C13: a pointer move whose ray misses the sphere (calculateIntersection
\* returns null) sets the preview intersection point to null, raises and logs
\* no error and changes no other state; a pointer move that hits sets the
\* preview to the position returned.
C13_MissHidesPreview ==
    [][MoveHandled =>
        /\ ~Returned.hit =>
              /\ intersectionPoint' = NoPreview
              /\ UNCHANGED <<invalidations, effects, camera, isMarkerMode, onMarkerPlaced,
                             pointerPc, resolverVars, converterVars, poiVars>>
        /\ Returned.hit => intersectionPoint' = PreviewAt(Returned.position)]_vars

\* C13 witness: a pointer move hit and showed the preview, and the move after it
\* missed the sphere and hid it again.
C13_Witness ==
    /\ event.type = "pointermove"
    /\ Len(calls) >= 2
    /\ calls[Len(calls) - 1].result.hit
    /\ ~calls[Len(calls)].result.hit
    /\ invalidations >= 1
    /\ intersectionPoint = NoPreview

-----------------------------------------------------------------------------
(* Properties of latLongToVector3, checked under SpecConverter *)

\* latLongToVector3 has returned the position of geo
Placed == converterPc = "placed"

\* the floating-point error of a coordinate of a point at the radius: the
\* cosine of 90 degrees and the sine of 180 degrees are one step off 0, which
\* the radius multiplies
RoundingError(r) == Max(Ulp, RDiv(r * Ulp, FP))

\* v is the point (x, y, z) up to the floating-point error at radius r
IsPoint(v, x, y, z, r) ==
    /\ Abs(v.x - x) <= RoundingError(r)
    /\ Abs(v.y - y) <= RoundingError(r)
    /\ Abs(v.z - z) <= RoundingError(r)

\* r * c1 * c2 for numbers c1, c2 in [-1, 1], rounded as the code rounds it
Scaled(r, c1, c2) == RDiv(RDiv(r * c1, FP) * c2, FP)

\* C14: latLongToVector3 follows the axis convention, up to floating-point
\* error: (0, 0, r) gives (r, 0, 0), (90, 0, r) gives (0, r, 0), (-90, 0, r)
\* gives (0, -r, 0) and (0, 90, r) gives (0, 0, r); in general
\* x = r cos(lat) cos(long), y = r sin(lat), z = r cos(lat) sin(long), so y is
\* the polar axis and the longitude grows from +x towards +z.
C14_AxisConvention ==
    Placed =>
        LET r == geo.radius
        IN  /\ (geo.lat = 0 /\ geo.long = 0) => IsPoint(position, r, 0, 0, r)
            /\ (geo.lat = 90 /\ geo.long = 0) => IsPoint(position, 0, r, 0, r)
            /\ (geo.lat = -90 /\ geo.long = 0) => IsPoint(position, 0, -r, 0, r)
            /\ (geo.lat = 0 /\ geo.long = 90) => IsPoint(position, 0, 0, r, r)
            /\ IsPoint(position,
                       Scaled(r, IdealCos(geo.lat), IdealCos(geo.long)),
                       RDiv(r * IdealSin(geo.lat), FP),
                       Scaled(r, IdealCos(geo.lat), IdealSin(geo.long)),
                       r)

\* C14 witness: latLongToVector3(90, 0, 100) was called and returned the point
\* at the north pole, 100 up the y axis.
C14_Witness ==
    /\ Placed
    /\ geo.lat = 90 /\ geo.long = 0 /\ geo.radius = 100 * FP
    /\ position.y = 100 * FP
    /\ position.z = 0

-----------------------------------------------------------------------------
(* Properties of vectorToLatLong, checked under SpecConverter *)

\* the factors k > 0 a point is scaled by: 1/2, 2 and 100
ScaleFactors == {FP \div 2, 2 * FP, 100 * FP}

\* a quarter: the shortest length of a point that is compared with its multiple
MinLength == FP \div 4

\* the point k * p
ScaledBy(p, k) == Position(Mul(p.x, k), Mul(p.y, k), Mul(p.z, k))

\* the point is in the range the model renders as the doubles do: no coordinate
\* beyond 100, and a length of at least MinLength, far above the step of the
\* representation, so that its direction is kept as exactly as a double keeps it
InRange(p) ==
    /\ \A c \in {p.x, p.y, p.z} : Abs(c) <= 100 * FP
    /\ Length(p) >= MinLength

\* the latitude and longitude vectorToLatLong returns
LatLongOf(p, r) ==
    [lat |-> vectorToLatLong(p, r).lat, long |-> vectorToLatLong(p, r).long]

\* C16: the radius argument of vectorToLatLong does not affect its result: for
\* every point that is not of zero length the call returns the same latitude
\* and longitude with every radius; and the point is normalized first, so it
\* need not lie on the sphere: p and k * p, k > 0, give the same latitude and
\* longitude.
C16_RadiusAndScaleIrrelevant ==
    (Converted /\ ~Degenerate(position)) =>
        /\ \A r \in ConverterRadii : LatLongOf(position, r) = latLong
        /\ \A k \in ScaleFactors :
              (InRange(position) /\ InRange(ScaledBy(position, k)))
                  => LatLongOf(ScaledBy(position, k), geo.radius) = latLong

\* C16 witness: vectorToLatLong converted a point that lies off the sphere of
\* its radius argument, 100 times as far out, to a latitude and longitude off
\* the axes.
C16_Witness ==
    /\ Converted
    /\ geo.given /\ geo.radius = FP
    /\ geo.lat = 45 /\ geo.long = -120
    /\ latLong = [lat |-> 45, long |-> -120]
    /\ InRange(ScaledBy(position, 100 * FP))
    /\ Length(ScaledBy(position, 100 * FP)) > 99 * FP

-----------------------------------------------------------------------------
(* Properties of the marker scale, checked under SpecScale *)

\* the step is a frame of EuropaSphere that computed the scale
EuropaSphereFrameRan == cameraDistance' # cameraDistance /\ meshRef

\* the step is a frame of POIMarker that computed the size from the distance
POIMarkerFrameRan == markerDistance' # markerDistance /\ ~scaleGiven

\* lo + (hi - lo) * (d - MIN_CAMERA_DISTANCE)
\*                / (MAX_CAMERA_DISTANCE - MIN_CAMERA_DISTANCE),
\* the point of the straight line at the distance d, to the nearest size
OnTheLine(d, lo, hi) ==
    lo + RDiv((hi - lo) * (d - MIN_CAMERA_DISTANCE),
              MAX_CAMERA_DISTANCE - MIN_CAMERA_DISTANCE)

\* the rounding error of a size between lo and hi: half a step of the
\* normalized distance, which the span hi - lo multiplies, and the rounding of
\* the product
LineRounding(lo, hi) == RDiv(hi - lo, 2 * FP) + 1

\* v is the clamped linear interpolation at the distance d between the sizes
\* lo and hi, up to the rounding error
ClampedInterpolation(v, d, lo, hi) ==
    /\ lo <= v /\ v <= hi
    /\ d <= MIN_CAMERA_DISTANCE => v = lo
    /\ d >= MAX_CAMERA_DISTANCE => v = hi
    /\ (MIN_CAMERA_DISTANCE <= d /\ d <= MAX_CAMERA_DISTANCE)
           => Abs(v - OnTheLine(d, lo, hi)) <= LineRounding(lo, hi)

\* C17: the marker scale a frame computes is a clamped linear interpolation of
\* the camera distance: it lies in [MIN_MARKER_SIZE, MAX_MARKER_SIZE], equals
\* MIN_MARKER_SIZE at distances up to MIN_CAMERA_DISTANCE (1.5) and
\* MAX_MARKER_SIZE at distances from MAX_CAMERA_DISTANCE (4) on, lies on the
\* line in between, and is no smaller than the scale of the frame before when
\* the distance is no smaller; in EuropaSphere, and in POIMarker with the
\* constants of POIMarker when it is not given a scale; a POIMarker that is
\* given the scale takes it over unchanged.
C17_ClampedLinearScale ==
    [][/\ EuropaSphereFrameRan =>
            /\ ClampedInterpolation(markerScale', cameraDistance',
                                    MIN_MARKER_SIZE, MAX_MARKER_SIZE)
            /\ (cameraDistance # NotMeasured /\ cameraDistance' >= cameraDistance)
                   => markerScale' >= markerScale
       /\ POIMarkerFrameRan =>
            /\ ClampedInterpolation(poiMarkerScale', markerDistance',
                                    POIMarker_MIN_MARKER_SIZE, POIMarker_MAX_MARKER_SIZE)
            /\ (markerDistance # NotMeasured /\ markerDistance' >= markerDistance)
                   => poiMarkerScale' >= poiMarkerScale
       /\ (markerDistance' # markerDistance /\ scaleGiven)
            => poiMarkerScale' = markerScale]_vars

\* C17 witness: the camera is halfway between the two distances, 2.75 from the
\* globe, and the scale is halfway between the two sizes, 0.0225; the marker
\* that is given the scale has taken it over.
C17_Witness ==
    /\ scalePc = "live"
    /\ meshRef
    /\ cameraDistance = (11 * FP) \div 4
    /\ markerScale = (MIN_MARKER_SIZE + MAX_MARKER_SIZE) \div 2
    /\ scaleGiven
    /\ markerDistance # NotMeasured
    /\ poiMarkerScale = markerScale

-----------------------------------------------------------------------------
(* C18: the debounce wrapper *)

\* the debounced pointer moves are in use
Debouncing == debouncePc = "live"

\* the mouse-position updates still owed to the calls made: one while a burst
\* is going on
UpdatesOwed == IF callsPending > 0 THEN 1 ELSE 0

\* the intersection calculations still owed to the updates made
CalculationsOwed == IF needsCalculation THEN 1 ELSE 0

-----------------------------------------------------------------------------
(* C19: the root the intersection effect selects *)

\* the effect has calculated for the mouse position of the state
EffectRan == Debouncing /\ calculations > 0 /\ ~needsCalculation /\ mousePos.set

\* the ray of the calculation
EffectRay == PointerRay(camera, mousePos.pixel)

\* the parameters at which the ray meets the globe in front of its origin
RootsAhead == {t \in {T1(EffectRay, sphere), T2(EffectRay, sphere)} : t >= 0}

\* the least of a set of parameters
Least(ts) == CHOOSE t \in ts : \A u \in ts : t <= u

\* C19: whenever the discriminant is non-negative, the point the intersection
\* effect stores as intersectionPoint is the first point of the globe the ray
\* meets in front of its origin: the ray meets the globe in front of its origin,
\* and the stored point is the one at the least such parameter, which
\* min(t1, t2) selected.
C19_MinRootIsFirstPointAhead ==
    (EffectRan /\ discriminant(EffectRay, sphere) >= 0) =>
        /\ RootsAhead # {}
        /\ Min(T1(EffectRay, sphere), T2(EffectRay, sphere)) = Least(RootsAhead)
        /\ intersectionPoint =
              PreviewAt(FinalPosition(sphere,
                            NormalAt(PointAt(EffectRay, Least(RootsAhead)), sphere)))

-----------------------------------------------------------------------------
(* C20: handlePointerDown, checked under SpecPointer *)

\* the step is handlePointerDown handling a pointer press
DownHandled ==
    /\ pointerEvents' = pointerEvents + 1
    /\ event'.type = "pointerdown"

\* the pointer press is a hit in marker mode
MarkerHit == isMarkerMode /\ meshRef /\ Returned.hit

\* the coordinates of the hit: the normalized position converted at radius 1
HitLatLong ==
    LET n == Returned.normalizedPosition
    IN  vectorToLatLong(Position(n.x, n.y, n.z), FP)

\* every dispatch of 'marker-selected' made so far comes straight after a call
\* of onMarkerPlaced
DispatchFollowsCall ==
    \A i \in 1..Len(effects) :
        effects[i].name = "dispatchEvent" =>
            /\ i > 1
            /\ effects[i - 1].name = "onMarkerPlaced"

\* C20: handlePointerDown records a marker position only on a hit in marker
\* mode.  A pointer press that is not a hit in marker mode calls no callback,
\* dispatches no event and changes no state.  A hit in marker mode with the
\* callback given calls onMarkerPlaced(lat, long) with the converted
\* coordinates of the hit and then dispatches 'marker-selected', in this order
\* and nothing else; without the callback it does neither.  The event is never
\* dispatched without a call of onMarkerPlaced before it.
C20_MarkerOnlyOnHitInMarkerMode ==
    /\ [][DownHandled =>
            /\ ~MarkerHit =>
                  UNCHANGED <<effects, intersectionPoint, invalidations, camera,
                              isMarkerMode, onMarkerPlaced, pointerPc, resolverVars,
                              converterVars, poiVars>>
            /\ (MarkerHit /\ onMarkerPlaced) =>
                  effects' = effects \o <<MarkerPlacedCall(HitLatLong.lat, HitLatLong.long),
                                          MarkerSelectedEvent>>
            /\ (MarkerHit /\ ~onMarkerPlaced) => effects' = effects]_vars
    /\ []DispatchFollowsCall

\* C20 witness: a pointer press hit the globe in marker mode, onMarkerPlaced
\* was called with the coordinates of the hit and 'marker-selected' was
\* dispatched after it.
C20_Witness ==
    /\ event.type = "pointerdown"
    /\ isMarkerMode
    /\ Len(calls) >= 1
    /\ calls[Len(calls)].result.hit
    /\ Len(effects) >= 2
    /\ effects[Len(effects) - 1].name = "onMarkerPlaced"
    /\ effects[Len(effects)] = MarkerSelectedEvent

-----------------------------------------------------------------------------
(* Properties of the add-marker workflow, checked under SpecWorkflow *)

\* the step is the operation op of the workflow
Stepped(op) ==
    /\ workflowOps' = workflowOps + 1
    /\ workflowOp' = op

\* the step runs toggleMarkerMode: from the tools button, or from Cancel
Toggled == Stepped("toggleMarkerMode") \/ Stepped("handleCancelMarker")

\* C21: toggleMarkerMode flips isMarkerMode on every call; when it turns marker
\* mode off it clears markerModalData and showModal, when it turns marker mode
\* on it leaves both unchanged; and in every state with isMarkerMode false,
\* markerModalData is null and showModal is false.
C21_MarkerModeOffClearsPending ==
    /\ [][Toggled =>
            /\ isMarkerMode' = ~isMarkerMode
            /\ isMarkerMode => (markerModalData' = NoMarkerData /\ showModal' = FALSE)
            /\ ~isMarkerMode => UNCHANGED <<markerModalData, showModal>>]_vars
    /\ [](~isMarkerMode => (markerModalData = NoMarkerData /\ showModal = FALSE))

\* C21 witness: the tools button turned marker mode off while the modal was open
\* for a pending position, and the position and showModal are cleared.
C21_Witness ==
    /\ workflowOp = "toggleMarkerMode"
    /\ ~isMarkerMode
    /\ isModalOpen
    /\ Len(effects) >= 2
    /\ markerModalData = NoMarkerData
    /\ showModal = FALSE

\* the step is a submit of the modal that calls createMarker
CreateMarkerCalled == Stepped("handleMarkerSubmit") /\ Truthy(Trim(newMarkerTitle))

\* C22: createMarker adds a marker only when a pending position exists.  With
\* markerModalData non-null and the sphere ref set it calls addMarker exactly
\* once, with the pending lat and long and the title and description given,
\* and then markerModalData is null and isMarkerMode and showModal are false;
\* with markerModalData null it calls nothing and changes no state of App.
C22_CreateMarkerNeedsPendingPosition ==
    [][CreateMarkerCalled =>
          /\ (markerModalData.set /\ europaSphereRef) =>
                /\ addMarkerCalls' =
                      Append(addMarkerCalls,
                             [name |-> "addMarker",
                              lat |-> markerModalData.lat,
                              long |-> markerModalData.long,
                              title |-> newMarkerTitle,
                              description |-> newMarkerDescription,
                              category |-> Omitted])
                /\ Len(pois') = Len(pois) + 1
                /\ markerModalData' = NoMarkerData
                /\ isMarkerMode' = FALSE
                /\ showModal' = FALSE
          /\ ~markerModalData.set =>
                UNCHANGED <<addMarkerCalls, pois, markerModalData, isMarkerMode,
                            showModal>>]_vars

\* C22 witness: a submit called createMarker with a pending position, and one
\* marker was added and marker mode is off.
C22_Witness ==
    /\ workflowOp = "handleMarkerSubmit"
    /\ Len(addMarkerCalls) = 1
    /\ addMarkerCalls[1].title # <<>>
    /\ markerModalData = NoMarkerData
    /\ ~isMarkerMode
    /\ ~showModal

-----------------------------------------------------------------------------
(* Properties of updatePOI and removePOI, checked under SpecPOIs *)

\* the step is a call of the operation op of the store
StoreCalled(op) == poiOps' = poiOps + 1 /\ lastOp'.op = op

\* the places of the list whose POI has the id
PlacesOf(list, id) == {i \in 1..Len(list) : list[i].id = id}

\* the first of a set of places
FirstPlace(places) == CHOOSE i \in places : \A j \in places : i <= j

\* the POI after is the POI before with its fields merged with the updates
MergedWith(before, updates, after) ==
    /\ DOMAIN after = DOMAIN before \cup DOMAIN updates
    /\ \A f \in DOMAIN updates : after[f] = updates[f]
    /\ \A f \in DOMAIN before \ DOMAIN updates : after[f] = before[f]

\* C23: updatePOI and removePOI change exactly the addressed entry.  Called
\* with an id that no POI has, they leave the list unchanged.  Called with an
\* id some POI has, updatePOI replaces the first POI with that id by the merge
\* of its fields with the updates and removePOI removes that POI, and every
\* other POI keeps its fields and its place relative to the others.
C23_OnlyAddressedEntryChanges ==
    [][/\ StoreCalled("updatePOI") =>
            LET places == PlacesOf(pois, lastOp'.id)
            IN  IF places = {} THEN pois' = pois
                ELSE /\ Len(pois') = Len(pois)
                     /\ MergedWith(pois[FirstPlace(places)], lastOp'.updates,
                                   pois'[FirstPlace(places)])
                     /\ \A i \in 1..Len(pois) :
                           i # FirstPlace(places) => pois'[i] = pois[i]
       /\ StoreCalled("removePOI") =>
            LET places == PlacesOf(pois, lastOp'.id)
            IN  IF places = {} THEN pois' = pois
                ELSE /\ Len(pois') = Len(pois) - 1
                     /\ \A i \in 1..Len(pois) :
                           /\ i < FirstPlace(places) => pois'[i] = pois[i]
                           /\ i > FirstPlace(places) => pois'[i - 1] = pois[i]]_vars

\* C23 witness: two POIs had the same id, removePOI was called with it, and the
\* second of them is still in the list.
C23_Witness ==
    /\ lastOp.op = "removePOI"
    /\ poiOps >= 2
    /\ PlacesOf(pois, lastOp.id) # {}

\* C28: after any sequence of the startup load, addPOI, updatePOI and
\* removePOI, no two POIs of the list have the same id.
C28_IdsUnique ==
    \A i, j \in 1..Len(pois) : pois[i].id = pois[j].id => i = j

-----------------------------------------------------------------------------
(* Properties of addMarker, checked under SpecPOIs *)

\* the category addMarker works with: the one given, 'user' when none is given
GivenCategory(call) == IF call.category = Omitted THEN "user" ELSE call.category

\* C25: addMarker appends exactly one POI per call and keeps the POIs before
\* it.  The POI carries the title, description and lat given, lng = long and
\* the category ('user' when none is given); its type is 'orientation' for the
\* category 'orientation', 'custom' for 'custom' and 'user', and 'poi' for
\* every other category, never 'pole'.
C25_AddMarkerAppendsOnePOI ==
    [][StoreCalled("addMarker") =>
          /\ Len(pois') = Len(pois) + 1
          /\ SubSeq(pois', 1, Len(pois)) = pois
          /\ LET poi == pois'[Len(pois')]
                 call == lastOp'
             IN  /\ poi.id = call.id
                 /\ poi.title = call.title
                 /\ poi.description = call.description
                 /\ poi.lat = call.lat
                 /\ poi.lng = call.long
                 /\ poi.category = GivenCategory(call)
                 /\ GivenCategory(call) = "orientation" => poi.type = "orientation"
                 /\ GivenCategory(call) \in {"custom", "user"} => poi.type = "custom"
                 /\ GivenCategory(call) \notin {"orientation", "custom", "user"}
                       => poi.type = "poi"
                 /\ poi.type # "pole"]_vars

\* C25 witness: addMarker was called without a category, and the POI it
\* appended has the category 'user' and the type 'custom'.
C25_Witness ==
    /\ lastOp.op = "addMarker"
    /\ lastOp.category = Omitted
    /\ Len(pois) >= 2
    /\ pois[Len(pois)].id = lastOp.id
    /\ pois[Len(pois)].category = "user"
    /\ pois[Len(pois)].type = "custom"

-----------------------------------------------------------------------------
(* Properties of the values updatePOI and removePOI return, checked under
   SpecQueue *)

\* the step is a call of updatePOI or of removePOI
FlagReturned ==
    /\ storeCalls' = storeCalls + 1
    /\ returned'.op \in {"updatePOI", "removePOI"}

\* C24: the boolean that updatePOI(id, ...) and removePOI(id) return equals
\* whether a POI with that id was in the list when the call was made, also
\* when other updates of the list are queued ahead of the call and its updater
\* runs after the function has returned.
C24_ReturnTellsExistence ==
    [][FlagReturned =>
          (returned'.value <=> \E i \in 1..Len(pois) : pois[i].id = returned'.id)]_vars

-----------------------------------------------------------------------------
(* Properties of the auto-rotation, checked under SpecRotation *)

\* the step handles a frame or an event
RotationHandled == rotationOps' = rotationOps + 1

\* the event handled in the step is one of those that count as an interaction
InteractionHandled ==
    /\ RotationHandled
    /\ \/ rotationOp'.op \in {"orbit-controls-change", "wheel"}
       \/ rotationOp'.op = "pointerdown" /\ rotationOp'.button \in {1, 2}
       \/ rotationOp'.op = "touchstart" /\ rotationOp'.touches > 1

\* C26: the rotation of the globe advances only in frames in which marker
\* mode is off, the WebGL context is not lost and the user has not interacted.
\* userHasInteracted becomes true by an orbit-controls change, a wheel event, a
\* middle- or right-button pointerdown or a multi-touch touchstart, by nothing
\* else, and never becomes false again; so the rotation never advances after
\* an interaction.
C26_RotationStopsForGood ==
    /\ [][rotationY' > rotationY =>
             /\ RotationHandled
             /\ rotationOp'.op = "frame"
             /\ ~isMarkerMode
             /\ ~contextLost
             /\ ~userHasInteracted]_vars
    /\ [][InteractionHandled => userHasInteracted']_vars
    /\ [][(~userHasInteracted /\ userHasInteracted') => InteractionHandled]_vars
    /\ [][userHasInteracted => userHasInteracted']_vars

\* C26 witness: the globe rotated in one frame, the user then interacted, and
\* the frame handled last, with marker mode off and the context not lost, left
\* the rotation where it was.
C26_Witness ==
    /\ rotationOp.op = "frame"
    /\ userHasInteracted
    /\ ~isMarkerMode
    /\ ~contextLost
    /\ meshRef
    /\ rotationOps = 3
    /\ rotationY \in Deltas

-----------------------------------------------------------------------------
(* Properties of the startup load, checked under SpecPOIsLoad *)

\* the step ends the startup load
LoadEnds == fetchPc = "pending" /\ fetchPc' = "settled"

-----------------------------------------------------------------------------
(* The open modal and the state of App, checked under SpecWorkflow *)

\* the new-marker modal of UIOverlay is open over a pending position of App
ModalHasPending == isModalOpen => (isMarkerMode /\ markerModalData.set)

\* C29: whenever the new-marker modal of UIOverlay is open, marker mode is on
\* and App holds a pending marker position; hence a submit with a non-blank
\* title always adds exactly one marker, and Cancel always leaves marker mode
\* off.
C29_OpenModalHasPendingMarker ==
    /\ []ModalHasPending
    /\ [][CreateMarkerCalled =>
             (Len(addMarkerCalls') = Len(addMarkerCalls) + 1 /\ Len(pois') = Len(pois) + 1)]_vars
    /\ [][Stepped("handleCancelMarker") => ~isMarkerMode']_vars

-----------------------------------------------------------------------------
(* The two latLongToVector3, checked under SpecGrid *)

\* the coordinates of p and q differ by no more than the rounding of the
\* products that make them, for a sphere of the given radius
SamePoint(p, q, radius) ==
    LET t == 2 * Ulp * (1 + radius \div FP)
    IN  /\ Abs(p.x - q.x) <= t
        /\ Abs(p.y - q.y) <= t
        /\ Abs(p.z - q.z) <= t

\* C30: the private latLongToVector3 of the grid lines places every
\* (lat, long, radius) at the same 3D point as latLongToVector3 of utils.ts,
\* so that grid lines and direction markers line up with the POIs.
C30_GridMatchesConverter ==
    gridPc = "placed" => SamePoint(gridPoint, utilsPoint, gridGeo.radius)

====
